---------------------------- MODULE Spec2Model ----------------------------
(***************************************************************************)
(* golox: the tree-walking Lox interpreter.  The model follows the source  *)
(* of the final snapshot: the environment chain, functions, classes and    *)
(* instances, the resolver, the interpreter's visitors and the driver      *)
(* (run / runFile) with its two error flags.                               *)
(***************************************************************************)
EXTENDS Integers, Sequences, FiniteSets, TLC

VARIABLES
    program,          \* index of the source file handed to runFile
    pc,               \* position of the driver inside runFile / run
    statements,       \* statement list returned by Parser.Parse
    current,          \* index of the next top-level statement in Interpret
    interp,           \* the Interpreter: heap, current environment, Locals
    hadError,         \* reporting: static error flag
    hadRuntimeError,  \* reporting: runtime error flag
    exitCode,         \* exit code of the process (-1 while running)
    diag,             \* the diagnostics written so far, each with its kind
                      \* and the stream it was written to
    chain,            \* environment unit: the chain of environments
    lastOp,           \* unit specifications: the last operation and its result
    stored,           \* environment unit: history, the value last stored in
                      \* each binding by the caller of Define and Assign
    scanner,          \* scanner unit: the Scanner
    lines,            \* prompt: history, the lines run so far, each with
                      \* the number of diagnostics written when it ended
    parser            \* source unit: the Parser of run

vars == <<program, pc, statements, current, interp, hadError,
          hadRuntimeError, exitCode, diag, chain, lastOp, stored, scanner,
          lines, parser>>

driverVars == <<program, pc, statements, current, interp, hadError,
                hadRuntimeError, exitCode, diag>>

envVars == <<chain, lastOp, stored>>

\* the variables of the unit specifications, which the driver leaves alone
unitVars == <<envVars, scanner, lines, parser>>

---------------------------------------------------------------------------
(* Values.  A Go *Value that is nil is NoValue; Value{} is the Lox nil.    *)

NoValue == [t |-> "none"]

NewNilValue == [t |-> "nil"]

NewNumberValue(n) == [t |-> "number", n |-> n]

NewStringValue(s) == [t |-> "string", s |-> s]

NewBoolValue(b) == [t |-> "bool", b |-> b]

NewFunctionValue(f) == [t |-> "function", id |-> f]

NewClassValue(c) == [t |-> "class", id |-> c]

NewInstanceValue(i) == [t |-> "instance", id |-> i]

\* the native function clock is function 0: it has no declaration
ClockFunction == 0

isTruthy(v) ==
    CASE v.t = "nil" -> FALSE
      [] v.t = "bool" -> v.b
      [] OTHER -> TRUE

Equals(v, other) ==
    CASE v.t = "nil" -> other.t = "nil"
      [] v.t = "number" -> other.t = "number" /\ v.n = other.n
      [] v.t = "string" -> other.t = "string" /\ v.s = other.s
      [] v.t = "bool" -> other.t = "bool" /\ v.b = other.b
      [] v.t = "function" -> other.t = "function" /\ v.id = other.id
      [] v.t = "class" -> other.t = "class" /\ v.id = other.id
      [] v.t = "instance" -> other.t = "instance" /\ v.id = other.id
      [] OTHER -> FALSE

---------------------------------------------------------------------------
(* Errors.  Return, break and continue travel as errors.                   *)

NoErr == [k |-> "none"]

RuntimeError(msg) == [k |-> "runtime", msg |-> msg]

ReturnError(v) == [k |-> "return", msg |-> "Return only supported in functions.", v |-> v]

\* depth: the call depth at which the signal was raised (history only)
BreakError(depth) == [k |-> "break", msg |-> "Break only supported in loops.", depth |-> depth]

ContinueError(depth) == [k |-> "continue", msg |-> "Continue only supported in loops.", depth |-> depth]

\* a nil pointer dereference: the Go runtime panics
Panic == [k |-> "panic", msg |-> "nil pointer dereference"]

\* a run that executes MaxIterations loop bodies is taken as one that never
\* ends: the loop stops there with Diverged, which nothing catches
MaxIterations == 8

Diverged == [k |-> "diverged", msg |-> "still running"]

---------------------------------------------------------------------------
(* Maps (Go map[string]X) are functions on a finite set of strings.        *)

EmptyMap == <<>>

Put(m, key, v) == (key :> v) @@ m

---------------------------------------------------------------------------
(* Environment.  envs is the heap of environments, an environment is       *)
(* named by its index, 0 is the nil pointer.                               *)

NewEnvironment == [Values |-> EmptyMap, Enclosing |-> 0]

NewEnvironmentScope(envs, enclosing) ==
    Append(envs, [Values |-> EmptyMap, Enclosing |-> enclosing])

Environment_Define_m(envs, e, name, value) ==
    IF name \in DOMAIN envs[e].Values
    THEN envs
    ELSE [envs EXCEPT ![e].Values = Put(@, name, value)]

Environment_Define(envs, e, name, value) ==
    [envs EXCEPT ![e].Values = Put(@, name, value)]

RECURSIVE Environment_Assign_m(_, _, _, _)
Environment_Assign_m(envs, e, name, value) ==
    IF name \in DOMAIN envs[e].Values
    THEN [envs |-> [envs EXCEPT ![e].Values = Put(@, name, value)], err |-> NoErr]
    ELSE IF envs[e].Enclosing # 0
    THEN Environment_Assign_m(envs, envs[e].Enclosing, name, value)
    ELSE [envs |-> [envs EXCEPT ![e].Values = Put(@, name, value)],
          err |-> RuntimeError("Undefined variable '" \o name \o "'.")]

RECURSIVE Environment_Assign(_, _, _, _)
Environment_Assign(envs, e, name, value) ==
    IF name \in DOMAIN envs[e].Values
    THEN [envs |-> [envs EXCEPT ![e].Values = Put(@, name, value)], err |-> NoErr]
    ELSE IF envs[e].Enclosing # 0
    THEN Environment_Assign(envs, envs[e].Enclosing, name, value)
    ELSE [envs |-> envs, err |-> RuntimeError("Undefined variable '" \o name \o "'.")]

RECURSIVE Environment_Get(_, _, _)
Environment_Get(envs, e, name) ==
    IF name \in DOMAIN envs[e].Values
    THEN [v |-> envs[e].Values[name], err |-> NoErr]
    ELSE IF envs[e].Enclosing # 0
    THEN Environment_Get(envs, envs[e].Enclosing, name)
    ELSE [v |-> NoValue, err |-> RuntimeError("Undefined variable '" \o name \o "'.")]

\* 0 when the walk runs off the end of the chain
RECURSIVE ancestor(_, _, _)
ancestor(envs, e, distance) ==
    IF distance <= 0 \/ e = 0 THEN e
    ELSE ancestor(envs, envs[e].Enclosing, distance - 1)

Environment_AssignAt_m(envs, e, distance, name, value) ==
    LET a == ancestor(envs, e, distance)
    IN  IF a = 0 THEN [envs |-> envs, err |-> Panic]
        ELSE Environment_Assign(envs, e, name, value)

Environment_AssignAt(envs, e, distance, name, value) ==
    LET a == ancestor(envs, e, distance)
    IN  IF a = 0 THEN [envs |-> envs, err |-> Panic]
        ELSE [envs |-> Environment_Define(envs, a, name, value), err |-> NoErr]

\* the value is NoValue (a nil pointer) when the name is not in that map
Environment_GetAt(envs, e, distance, name) ==
    LET a == ancestor(envs, e, distance)
    IN  IF a = 0 THEN [v |-> NoValue, err |-> Panic]
        ELSE IF name \in DOMAIN envs[a].Values
        THEN [v |-> envs[a].Values[name], err |-> NoErr]
        ELSE [v |-> NoValue, err |-> NoErr]

---------------------------------------------------------------------------
(* The abstract syntax tree.  Variable, Assign, This and Super nodes carry *)
(* an id: the Go code keys Interpreter.Locals by the node's pointer.       *)
(* Var, Function and Class statements carry an id used by the history      *)
(* variables only.                                                         *)

NoExpr == [k |-> "noexpr"]

NoStmt == [k |-> "nostmt"]

Literal(v) == [k |-> "literal", v |-> v]

Variable(name, id) == [k |-> "variable", name |-> name, id |-> id]

Assign(name, value, id) == [k |-> "assign", name |-> name, value |-> value, id |-> id]

Binary(left, op, right) == [k |-> "binary", left |-> left, op |-> op, right |-> right]

Logical(left, op, right) == [k |-> "logical", left |-> left, op |-> op, right |-> right]

Unary(op, right) == [k |-> "unary", op |-> op, right |-> right]

Call(callee, args) == [k |-> "call", callee |-> callee, args |-> args]

GetE(object, name) == [k |-> "get", object |-> object, name |-> name]

SetE(object, name, value) == [k |-> "set", object |-> object, name |-> name, value |-> value]

This(id) == [k |-> "this", id |-> id]

Super(method, id) == [k |-> "super", method |-> method, id |-> id]

ExprS(e) == [k |-> "expression", e |-> e]

PrintS(e) == [k |-> "print", e |-> e]

VarS(name, init, id) == [k |-> "var", name |-> name, init |-> init, id |-> id]

Block(body) == [k |-> "block", body |-> body]

IfS(c, then, else) == [k |-> "if", c |-> c, then |-> then, else |-> else]

WhileS(c, body) == [k |-> "while", c |-> c, body |-> body]

BreakS == [k |-> "break"]

ContinueS == [k |-> "continue"]

Fun(name, params, body, id) == [k |-> "function", name |-> name, params |-> params, body |-> body, id |-> id]

ReturnS(e) == [k |-> "return", e |-> e]

ClassS(name, super, methods, id) == [k |-> "class", name |-> name, super |-> super, methods |-> methods, id |-> id]

---------------------------------------------------------------------------
(* The interpreter's state st: the heap (envs, fns, classes, insts), the   *)
(* Interpreter fields (Globals, Environment, Locals), standard output,     *)
(* and history fields that record what happened (depth, bound, calls,      *)
(* loops, uses, thises, supers, origin, blocks, hops, checks, logicals,    *)
(* frames); the history is never read by the modelled code.  iterations    *)
(* counts the loop bodies executed, for the bound MaxIterations.           *)

R(st, v, err) == [st |-> st, v |-> v, err |-> err]

\* history: the declaration that created the binding of name in env e
OriginOf(st, e, name) ==
    IF <<e, name>> \in DOMAIN st.origin THEN st.origin[<<e, name>>] ELSE <<0, 0>>

SetOrigin(st, e, name, tag) == [st EXCEPT !.origin = Put(@, <<e, name>>, tag)]

\* history: an access of name through a recorded distance, whether the chain
\* from the current environment is that long and whether the environment
\* reached binds the name
Hop(st, id, distance, name) ==
    LET a == ancestor(st.envs, st.Environment, distance)
    IN  [st EXCEPT !.hops = Append(@, [use |-> id, name |-> name, distance |-> distance,
                                       reached |-> a # 0,
                                       bound |-> a # 0 /\ name \in DOMAIN st.envs[a].Values])]

---------------------------------------------------------------------------
(* LoxClass, LoxInstance, LoxFunction                                      *)

NewLoxFunction(declaration, closure, isInitializer, bound, owner) ==
    [Declaration |-> declaration, Closure |-> closure,
     IsInitializer |-> isInitializer, bound |-> bound, owner |-> owner]

LoxFunction_Arity(st, f) ==
    IF f = ClockFunction THEN 0 ELSE Len(st.fns[f].Declaration.params)

\* 0 when no class of the chain has the method
RECURSIVE LoxClass_FindMethod(_, _, _)
LoxClass_FindMethod(classes, c, name) ==
    IF name \in DOMAIN classes[c].Methods THEN classes[c].Methods[name]
    ELSE IF classes[c].Superclass # 0
    THEN LoxClass_FindMethod(classes, classes[c].Superclass, name)
    ELSE 0

LoxClass_Arity(st, c) ==
    LET initializer == LoxClass_FindMethod(st.classes, c, "init")
    IN  IF initializer = 0 THEN 0 ELSE LoxFunction_Arity(st, initializer)

\* the new function is the last one of fns
LoxFunction_Bind_m(st, f, instance) ==
    LET environment == st.fns[f].Closure
        envs2 == Environment_Define(st.envs, environment, "this", NewInstanceValue(instance))
    IN  [st EXCEPT !.envs = envs2,
                   !.fns = Append(@, NewLoxFunction(st.fns[f].Declaration, environment,
                                                    st.fns[f].IsInitializer, instance,
                                                    st.fns[f].owner))]

LoxFunction_Bind(st, f, instance) ==
    LET envs1 == NewEnvironmentScope(st.envs, st.fns[f].Closure)
        environment == Len(envs1)
        envs2 == Environment_Define(envs1, environment, "this", NewInstanceValue(instance))
    IN  [st EXCEPT !.envs = envs2,
                   !.fns = Append(@, NewLoxFunction(st.fns[f].Declaration, environment,
                                                    st.fns[f].IsInitializer, instance,
                                                    st.fns[f].owner))]

LoxInstance_Get(st, i, name) ==
    IF name \in DOMAIN st.insts[i].Fields
    THEN R(st, st.insts[i].Fields[name], NoErr)
    ELSE LET method == LoxClass_FindMethod(st.classes, st.insts[i].Class, name)
         IN  IF method # 0
             THEN LET st1 == LoxFunction_Bind(st, method, i)
                  IN  R(st1, NewFunctionValue(Len(st1.fns)), NoErr)
             ELSE R(st, NoValue, RuntimeError("Undefined property '" \o name \o "'."))

LoxInstance_Set(st, i, name, value) ==
    [st EXCEPT !.insts[i].Fields = Put(@, name, value)]

---------------------------------------------------------------------------
(* Interpreter.  evaluate returns a Value and an error, execute a pointer  *)
(* to a Value and an error; both return the state they leave behind.       *)

RECURSIVE evaluate(_, _)
RECURSIVE execute(_, _)
RECURSIVE executeStatements(_, _, _, _)

\* the loop over statements of executeBlock; value is the last value assigned
executeStatements(stmts, idx, st, value) ==
    IF idx > Len(stmts) THEN R(st, value, NoErr)
    ELSE LET next(r) == IF r.err.k # "none" THEN r
                        ELSE executeStatements(stmts, idx + 1, r.st, r.v)
         IN  next(execute(stmts[idx], st))

\* the deferred function of executeBlock
restoreEnvironment_m(st, previous, err) ==
    IF err.k = "none" THEN [st EXCEPT !.Environment = previous] ELSE st

restoreEnvironment(st, previous, err) == [st EXCEPT !.Environment = previous]

\* history: blocks records, for every executeBlock that ended, the current
\* environment before it and after it and the way it ended
executeBlock(stmts, environment, st) ==
    LET previous == st.Environment
        record(r, st1) ==
            R([st1 EXCEPT !.blocks = Append(@, [before |-> previous,
                                                after |-> st1.Environment,
                                                how |-> r.err.k])],
              r.v, r.err)
        restore(r) == record(r, restoreEnvironment(r.st, previous, r.err))
    IN  restore(executeStatements(stmts, 1, [st EXCEPT !.Environment = environment], NoValue))

\* the parameter loop of LoxFunction.Call
RECURSIVE defineParams(_, _, _, _, _)
defineParams(st, f, environment, arguments, idx) ==
    LET params == st.fns[f].Declaration.params
    IN  IF idx > Len(params) THEN st
        ELSE defineParams(
                 SetOrigin([st EXCEPT !.envs = Environment_Define(@, environment, params[idx], arguments[idx])],
                           environment, params[idx], <<st.fns[f].Declaration.id, idx>>),
                 f, environment, arguments, idx + 1)

\* what LoxFunction.Call makes of the result of executeBlock
CallResult_m(st, f, b) ==
    IF b.err.k # "none"
    THEN IF b.err.k = "return"
         THEN R(st, b.err.v, NoErr)
         ELSE R(st, b.v, b.err)
    ELSE IF st.fns[f].IsInitializer
         THEN R(st, Environment_GetAt(st.envs, st.fns[f].Closure, 0, "this").v, NoErr)
         ELSE R(st, b.v, NoErr)

CallResult(st, f, b) ==
    IF b.err.k # "none"
    THEN IF b.err.k = "return"
         THEN IF st.fns[f].IsInitializer
              THEN R(st, Environment_GetAt(st.envs, st.fns[f].Closure, 0, "this").v, NoErr)
              ELSE R(st, b.err.v, NoErr)
         ELSE R(st, b.v, b.err)
    ELSE IF st.fns[f].IsInitializer
         THEN R(st, Environment_GetAt(st.envs, st.fns[f].Closure, 0, "this").v, NoErr)
         ELSE R(st, b.v, NoErr)

\* the environment the body of a call runs in
CallEnvironment_m(st, f) == NewEnvironmentScope(st.envs, st.Environment)

CallEnvironment(st, f) == NewEnvironmentScope(st.envs, st.fns[f].Closure)

\* ret and bodyErr are history: how the body ended; frames is history: for
\* each call the environment of the body, its enclosing environment, the
\* closure, the caller's current environment and the heap before and after
LoxFunction_Call(st, f, arguments) ==
    IF f = ClockFunction
    THEN [st |-> st, v |-> NewNumberValue(st.now), err |-> NoErr, ret |-> FALSE, bodyErr |-> NoErr]
    ELSE LET envs1 == CallEnvironment(st, f)
             environment == Len(envs1)
             st1 == defineParams([st EXCEPT !.envs = envs1], f, environment, arguments, 1)
             frame == Len(st.frames) + 1
             st2 == [st1 EXCEPT !.depth = @ + 1, !.callee = f,
                                !.frames = Append(@,
                                    [fn |-> f, env |-> environment,
                                     enclosing |-> envs1[environment].Enclosing,
                                     closure |-> st.fns[f].Closure,
                                     caller |-> st.Environment,
                                     before |-> st.envs, after |-> <<>>])]
             result(b) ==
                 LET st3 == [b.st EXCEPT !.depth = st.depth, !.callee = st.callee,
                                         !.frames[frame].after = b.st.envs]
                     r == CallResult(st3, f, b)
                 IN  [st |-> r.st, v |-> r.v, err |-> r.err,
                      ret |-> (b.err.k = "return"), bodyErr |-> b.err]
         IN  result(executeBlock(st.fns[f].Declaration.body, environment, st2))

NewLoxInstance(class) == [Class |-> class, Fields |-> EmptyMap]

LoxClass_Call(st, c, arguments) ==
    LET st1 == [st EXCEPT !.insts = Append(@, NewLoxInstance(c))]
        instance == Len(st1.insts)
        initializer == LoxClass_FindMethod(st1.classes, c, "init")
    IN  IF initializer = 0
        THEN [st |-> st1, v |-> NewInstanceValue(instance), err |-> NoErr,
              ret |-> FALSE, bodyErr |-> NoErr]
        ELSE LET st2 == LoxFunction_Bind(st1, initializer, instance)
                 discard(r) ==
                     IF r.err.k = "panic"
                     THEN [st |-> r.st, v |-> NoValue, err |-> r.err,
                           ret |-> r.ret, bodyErr |-> r.err]
                     ELSE [st |-> r.st, v |-> NewInstanceValue(instance), err |-> NoErr,
                           ret |-> r.ret, bodyErr |-> r.err]
             IN  discard(LoxFunction_Call(st2, Len(st2.fns), arguments))

---------------------------------------------------------------------------
(* Expressions                                                             *)

\* Value.String; numbers of the model are integers, which %g prints plainly
String(st, v) ==
    CASE v.t = "nil" -> "nil"
      [] v.t = "number" -> ToString(v.n)
      [] v.t = "string" -> v.s
      [] v.t = "bool" -> IF v.b THEN "true" ELSE "false"
      [] v.t = "function" ->
            IF v.id = ClockFunction THEN "<native fn>"
            ELSE "<fn " \o st.fns[v.id].Declaration.name \o ">"
      [] v.t = "class" -> st.classes[v.id].ClassName
      [] v.t = "instance" -> st.classes[st.insts[v.id].Class].ClassName \o " instance"

checkNumberOperands(a, b) ==
    IF a.t = "number" /\ b.t = "number" THEN NoErr
    ELSE RuntimeError("Operands must be numbers.")

\* strconv.ParseFloat on the numerals of one digit
ParseFloat(text) ==
    CASE text = "0" -> 0  [] text = "1" -> 1  [] text = "2" -> 2  [] text = "3" -> 3
      [] text = "4" -> 4  [] text = "5" -> 5  [] text = "6" -> 6  [] text = "7" -> 7
      [] text = "8" -> 8  [] text = "9" -> 9

\* NewValue(literal): a number literal of the parser carries the text of
\* the numeral; the other literals have the shape of their values
NewValue(literal) ==
    IF literal.t = "number" /\ "text" \in DOMAIN literal
    THEN NewNumberValue(ParseFloat(literal.text))
    ELSE literal

VisitLiteralExpression(e, st) == R(st, NewValue(e.v), NoErr)

VisitGroupingExpression(e, st) == evaluate(e.e, st)

\* history: uses records which declaration's binding a variable use touched
lookUpVariable_m(name, e, st) ==
    LET g == Environment_Get(st.envs, st.Environment, name)
        holders == {d \in 0..Len(st.envs) :
                       LET a == ancestor(st.envs, st.Environment, d)
                       IN  a # 0 /\ name \in DOMAIN st.envs[a].Values}
        a == IF holders = {} THEN st.Globals
             ELSE ancestor(st.envs, st.Environment,
                           CHOOSE d \in holders : \A x \in holders : d <= x)
    IN  R([st EXCEPT !.uses = Append(@, [use |-> e.id, decl |-> OriginOf(st, a, name)])],
          g.v, g.err)

lookUpVariable(name, e, st) ==
    IF e.id \in DOMAIN st.Locals
    THEN LET g == Environment_GetAt(st.envs, st.Environment, st.Locals[e.id], name)
             a == ancestor(st.envs, st.Environment, st.Locals[e.id])
         IN  R([Hop(st, e.id, st.Locals[e.id], name)
                   EXCEPT !.uses = Append(@, [use |-> e.id, decl |-> OriginOf(st, a, name)])],
               g.v, g.err)
    ELSE LET g == Environment_Get(st.envs, st.Globals, name)
         IN  R([st EXCEPT !.uses = Append(@, [use |-> e.id, decl |-> OriginOf(st, st.Globals, name)])],
               g.v, g.err)

\* value = *v panics when v is nil
VisitVariableExpression(e, st) ==
    LET r == lookUpVariable(e.name, e, st)
    IN  IF r.err.k # "none" THEN R(r.st, NewNilValue, r.err)
        ELSE IF r.v = NoValue THEN R(r.st, NewNilValue, Panic)
        ELSE r

VisitThisExpression(e, st) ==
    LET r == lookUpVariable("this", e, st)
    IN  IF r.err.k # "none" THEN R(r.st, NewNilValue, r.err)
        ELSE IF r.v = NoValue THEN R(r.st, NewNilValue, Panic)
        ELSE R([r.st EXCEPT !.thises = Append(@, [callee |-> st.callee, v |-> r.v])], r.v, NoErr)

VisitAssignExpression(e, st) ==
    LET assign(r) ==
            IF r.err.k # "none" THEN R(r.st, r.v, r.err)
            ELSE IF e.id \in DOMAIN r.st.Locals
            THEN LET a == ancestor(r.st.envs, r.st.Environment, r.st.Locals[e.id])
                     w == Environment_AssignAt(r.st.envs, r.st.Environment, r.st.Locals[e.id], e.name, r.v)
                 IN  R([Hop(r.st, e.id, r.st.Locals[e.id], e.name)
                           EXCEPT !.envs = w.envs,
                                  !.uses = Append(@, [use |-> e.id, decl |-> OriginOf(r.st, a, e.name)])],
                       r.v, w.err)
            ELSE LET w == Environment_Assign(r.st.envs, r.st.Globals, e.name, r.v)
                 IN  R([r.st EXCEPT !.envs = w.envs,
                                    !.uses = Append(@, [use |-> e.id, decl |-> OriginOf(r.st, r.st.Globals, e.name)])],
                       r.v, w.err)
    IN  assign(evaluate(e.value, st))

\* case Plus of VisitBinaryExpression
PlusOperator_m(st, left, right) ==
    IF left.t = "number" /\ right.t = "number"
    THEN [v |-> NewNumberValue(left.n + right.n), err |-> NoErr]
    ELSE IF left.t = "string" /\ right.t = "string"
    THEN [v |-> NewStringValue(left.s \o right.s), err |-> NoErr]
    ELSE [v |-> NewNilValue, err |-> RuntimeError("Operands must be two numbers or two strings.")]

PlusOperator(st, left, right) ==
    IF left.t = "number" /\ right.t = "number"
    THEN [v |-> NewNumberValue(left.n + right.n), err |-> NoErr]
    ELSE IF left.t = "string"
    THEN IF right.t = "string"
         THEN [v |-> NewStringValue(left.s \o right.s), err |-> NoErr]
         ELSE [v |-> NewStringValue(left.s \o String(st, right)), err |-> NoErr]
    ELSE IF right.t = "string"
    THEN [v |-> NewStringValue(String(st, left) \o right.s), err |-> NoErr]
    ELSE [v |-> NewNilValue, err |-> RuntimeError("Operands must be two numbers or two strings.")]

BinaryOperator(st, op, left, right) ==
    CASE op = "," -> [v |-> right, err |-> NoErr]
      [] op \in {">", ">=", "<", "<=", "-", "*"} ->
            LET err == checkNumberOperands(left, right)
            IN  IF err.k # "none" THEN [v |-> NewNilValue, err |-> err]
                ELSE [v |-> CASE op = ">" -> NewBoolValue(left.n > right.n)
                              [] op = ">=" -> NewBoolValue(left.n >= right.n)
                              [] op = "<" -> NewBoolValue(left.n < right.n)
                              [] op = "<=" -> NewBoolValue(left.n <= right.n)
                              [] op = "-" -> NewNumberValue(left.n - right.n)
                              [] op = "*" -> NewNumberValue(left.n * right.n),
                      err |-> NoErr]
      [] op = "!=" -> [v |-> NewBoolValue(~Equals(left, right)), err |-> NoErr]
      [] op = "==" -> [v |-> NewBoolValue(Equals(left, right)), err |-> NoErr]
      [] op = "+" -> PlusOperator(st, left, right)
      [] OTHER -> [v |-> NewNilValue, err |-> RuntimeError("unsupported binary operator type")]

VisitBinaryExpression(e, st) ==
    LET operate(left, right) ==
            IF right.err.k # "none" THEN R(right.st, NewNilValue, right.err)
            ELSE LET b == BinaryOperator(right.st, e.op, left.v, right.v)
                 IN  R(right.st, b.v, b.err)
        withLeft(left) ==
            IF left.err.k # "none" THEN R(left.st, NewNilValue, left.err)
            ELSE operate(left, evaluate(e.right, left.st))
    IN  withLeft(evaluate(e.left, st))

\* history: logicals records every logical expression whose left operand
\* gave a value: that value, whether the right operand ran, the result and
\* the number of calls completed meanwhile
Logged(e, st, left, right, r) ==
    R([r.st EXCEPT !.logicals = Append(@,
          [op |-> e.op, left |-> left.v, right |-> right, v |-> r.v, err |-> r.err.k,
           calls |-> Len(r.st.calls) - Len(st.calls)])],
      r.v, r.err)

VisitLogicalExpression_m(e, st) ==
    LET withLeft(left) ==
            IF left.err.k # "none" THEN left
            ELSE IF e.op = "or" /\ isTruthy(left.v)
            THEN Logged(e, st, left, FALSE, R(left.st, NewBoolValue(TRUE), NoErr))
            ELSE IF e.op = "and" /\ ~isTruthy(left.v)
            THEN Logged(e, st, left, FALSE, R(left.st, NewBoolValue(FALSE), NoErr))
            ELSE IF e.op \notin {"or", "and"}
            THEN R(left.st, left.v, RuntimeError("unsupported logical operator type"))
            ELSE Logged(e, st, left, TRUE, evaluate(e.right, left.st))
    IN  withLeft(evaluate(e.left, st))

VisitLogicalExpression(e, st) ==
    LET withLeft(left) ==
            IF left.err.k # "none" THEN left
            ELSE IF e.op = "or" /\ isTruthy(left.v) THEN Logged(e, st, left, FALSE, left)
            ELSE IF e.op = "and" /\ ~isTruthy(left.v) THEN Logged(e, st, left, FALSE, left)
            ELSE IF e.op \notin {"or", "and"}
            THEN R(left.st, left.v, RuntimeError("unsupported logical operator type"))
            ELSE Logged(e, st, left, TRUE, evaluate(e.right, left.st))
    IN  withLeft(evaluate(e.left, st))

VisitUnaryExpression(e, st) ==
    LET operate(right) ==
            IF right.err.k # "none" THEN R(right.st, NewNilValue, right.err)
            ELSE CASE e.op = "-" ->
                        IF right.v.t = "number" THEN R(right.st, NewNumberValue(0 - right.v.n), NoErr)
                        ELSE R(right.st, NewNilValue, RuntimeError("Operand must be a number."))
                   [] e.op = "!" -> R(right.st, NewBoolValue(~isTruthy(right.v)), NoErr)
                   [] OTHER -> R(right.st, NewNilValue, RuntimeError("unsupported unary operator type"))
    IN  operate(evaluate(e.right, st))

\* the argument loop of VisitCallExpression
RECURSIVE evaluateArguments(_, _, _, _)
evaluateArguments(args, idx, st, arguments) ==
    IF idx > Len(args) THEN [st |-> st, vs |-> arguments, err |-> NoErr]
    ELSE LET next(r) ==
                 IF r.err.k # "none" THEN [st |-> r.st, vs |-> arguments, err |-> r.err]
                 ELSE evaluateArguments(args, idx + 1, r.st, Append(arguments, r.v))
         IN  next(evaluate(args[idx], st))

\* history: calls records every completed Call with the way its body ended,
\* checks every failed callable or arity check with the number of arguments
\* evaluated before it
VisitCallExpression(e, st) ==
    LET result(callee, r) ==
            LET value == IF r.err.k # "none" \/ r.v = NoValue THEN NewNilValue ELSE r.v
                st1 == [r.st EXCEPT !.calls = Append(@,
                           [callee |-> callee.v, ret |-> r.ret, bodyErr |-> r.bodyErr,
                            v |-> value, err |-> r.err])]
            IN  R(st1, value, r.err)
        call(callee, a) ==
            IF a.err.k # "none" THEN R(a.st, NewNilValue, a.err)
            ELSE
            LET arity == IF callee.v.t = "function"
                         THEN LoxFunction_Arity(a.st, callee.v.id)
                         ELSE LoxClass_Arity(a.st, callee.v.id)
            IN  IF Len(a.vs) # arity
                THEN R([a.st EXCEPT !.checks = Append(@,
                           [check |-> "arity", evaluated |-> Len(a.vs), args |-> Len(e.args)])],
                       NewNilValue,
                       RuntimeError("Expected " \o ToString(arity) \o " arguments but got "
                                    \o ToString(Len(a.vs)) \o "."))
                ELSE result(callee, IF callee.v.t = "function"
                                    THEN LoxFunction_Call(a.st, callee.v.id, a.vs)
                                    ELSE LoxClass_Call(a.st, callee.v.id, a.vs))
        withCallee(callee) ==
            IF callee.err.k # "none" THEN R(callee.st, NewNilValue, callee.err)
            ELSE IF callee.v.t \notin {"function", "class"}
            THEN R([callee.st EXCEPT !.checks = Append(@,
                       [check |-> "callable", evaluated |-> 0, args |-> Len(e.args)])],
                   NewNilValue, RuntimeError("Can only call functions and classes."))
            ELSE call(callee, evaluateArguments(e.args, 1, callee.st, <<>>))
    IN  withCallee(evaluate(e.callee, st))

VisitGetExpression(e, st) ==
    LET get(object) ==
            IF object.err.k # "none" THEN R(object.st, NewNilValue, object.err)
            ELSE IF object.v.t # "instance"
            THEN R(object.st, NewNilValue, RuntimeError("Only instances have properties."))
            ELSE LET g == LoxInstance_Get(object.st, object.v.id, e.name)
                 IN  IF g.err.k # "none" THEN R(g.st, NewNilValue, g.err) ELSE g
    IN  get(evaluate(e.object, st))

VisitSetExpression(e, st) ==
    LET set(object, value) ==
            IF value.err.k # "none" THEN value
            ELSE R(LoxInstance_Set(value.st, object.v.id, e.name, value.v), value.v, NoErr)
        withObject(object) ==
            IF object.err.k # "none" THEN R(object.st, NewNilValue, object.err)
            ELSE IF object.v.t # "instance"
            THEN R(object.st, NewNilValue, RuntimeError("Only instances have fields."))
            ELSE set(object, evaluate(e.value, object.st))
    IN  withObject(evaluate(e.object, st))

\* the class whose method table super.m is looked up in
superclassAt_m(st, distance) ==
    LET object == Environment_GetAt(st.envs, st.Environment, distance - 1, "this")
    IN  IF object.err.k # "none" \/ object.v.t # "instance" THEN object
        ELSE IF st.classes[st.insts[object.v.id].Class].Superclass = 0
        THEN [v |-> NoValue, err |-> Panic]
        ELSE [v |-> NewClassValue(st.classes[st.insts[object.v.id].Class].Superclass),
              err |-> NoErr]

superclassAt(st, distance) ==
    Environment_GetAt(st.envs, st.Environment, distance, "super")

\* history: supers records where each super lookup started and what it found
VisitSuperExpression(e, st) ==
    IF e.id \in DOMAIN st.Locals
    THEN LET distance == st.Locals[e.id]
             superclass == superclassAt(st, distance)
             object == Environment_GetAt(st.envs, st.Environment, distance - 1, "this")
             st0 == Hop(Hop(st, e.id, distance, "super"), e.id, distance - 1, "this")
         IN  IF superclass.err.k # "none" \/ superclass.v.t # "class"
             THEN R(st0, NewNilValue, Panic)
             ELSE
             LET method == LoxClass_FindMethod(st.classes, superclass.v.id, e.method)
             IN  IF method = 0
                 THEN R(st0, NewNilValue, RuntimeError("Undefined property '" \o e.method \o "'."))
                 ELSE IF object.err.k # "none" \/ object.v.t # "instance"
                 THEN R(st0, NewNilValue, Panic)
                 ELSE LET st1 == LoxFunction_Bind(st0, method, object.v.id)
                      IN  R([st1 EXCEPT !.supers = Append(@,
                                [callee |-> st.callee, start |-> superclass.v.id,
                                 method |-> e.method, found |-> method,
                                 this |-> object.v.id])],
                            NewFunctionValue(Len(st1.fns)), NoErr)
    ELSE R(st, NewNilValue, RuntimeError("Missing superclass."))

evaluate(e, st) ==
    CASE e.k = "literal" -> VisitLiteralExpression(e, st)
      [] e.k = "grouping" -> VisitGroupingExpression(e, st)
      [] e.k = "variable" -> VisitVariableExpression(e, st)
      [] e.k = "this" -> VisitThisExpression(e, st)
      [] e.k = "assign" -> VisitAssignExpression(e, st)
      [] e.k = "binary" -> VisitBinaryExpression(e, st)
      [] e.k = "logical" -> VisitLogicalExpression(e, st)
      [] e.k = "unary" -> VisitUnaryExpression(e, st)
      [] e.k = "call" -> VisitCallExpression(e, st)
      [] e.k = "get" -> VisitGetExpression(e, st)
      [] e.k = "set" -> VisitSetExpression(e, st)
      [] e.k = "super" -> VisitSuperExpression(e, st)

---------------------------------------------------------------------------
(* Statements                                                              *)

VisitExpressionStatement(s, st) ==
    LET result(r) == IF r.err.k # "none" THEN R(r.st, NoValue, r.err) ELSE r
    IN  result(evaluate(s.e, st))

VisitFunctionStatement(s, st) ==
    LET fns1 == Append(st.fns, NewLoxFunction(s, st.Environment, FALSE, 0, 0))
        st1 == [st EXCEPT !.fns = fns1,
                          !.envs = Environment_Define(@, st.Environment, s.name,
                                                      NewFunctionValue(Len(fns1)))]
    IN  R(SetOrigin(st1, st.Environment, s.name, <<s.id, 0>>), NoValue, NoErr)

VisitPrintStatement(s, st) ==
    LET print(r) ==
            IF r.err.k # "none" THEN R(r.st, NoValue, r.err)
            ELSE R([r.st EXCEPT !.out = Append(@, String(r.st, r.v))], NoValue, NoErr)
    IN  print(evaluate(s.e, st))

VisitReturnStatement(s, st) ==
    IF s.e # NoExpr
    THEN LET return(r) == IF r.err.k # "none" THEN R(r.st, NoValue, r.err)
                          ELSE R(r.st, r.v, ReturnError(r.v))
         IN  return(evaluate(s.e, st))
    ELSE R(st, NoValue, ReturnError(NoValue))

VisitBlockStatement(s, st) ==
    LET envs1 == NewEnvironmentScope(st.envs, st.Environment)
    IN  executeBlock(s.body, Len(envs1), [st EXCEPT !.envs = envs1])

VisitIfStatement(s, st) ==
    LET branch(condition) ==
            IF condition.err.k # "none" THEN R(condition.st, NoValue, condition.err)
            ELSE IF isTruthy(condition.v) THEN execute(s.then, condition.st)
            ELSE IF s.else # NoStmt THEN execute(s.else, condition.st)
            ELSE R(condition.st, NoValue, NoErr)
    IN  branch(evaluate(s.c, st))

VisitVarStatement(s, st) ==
    LET define(r) ==
            IF r.err.k # "none" THEN R(r.st, NoValue, r.err)
            ELSE R(SetOrigin([r.st EXCEPT !.envs = Environment_Define(@, r.st.Environment, s.name, r.v)],
                             r.st.Environment, s.name, <<s.id, 0>>),
                   r.v, NoErr)
    IN  define(IF s.init # NoExpr THEN evaluate(s.init, st) ELSE R(st, NewNilValue, NoErr))

\* history: loops records each break or continue a while loop consumed,
\* with the call depth where it was raised and where it was consumed
RECURSIVE VisitWhileStatement(_, _)
VisitWhileStatement(s, st) ==
    LET afterBody(b) ==
            LET consumed == [b.st EXCEPT !.loops = Append(@,
                                [k |-> b.err.k, raised |-> b.err.depth, consumed |-> b.st.depth])]
            IN  IF b.err.k = "none" THEN VisitWhileStatement(s, b.st)
                ELSE IF b.err.k = "break" THEN R(consumed, NoValue, NoErr)
                ELSE IF b.err.k = "continue" THEN VisitWhileStatement(s, consumed)
                ELSE R(b.st, NoValue, b.err)
        loop(condition) ==
            IF condition.err.k # "none" THEN R(condition.st, NoValue, condition.err)
            ELSE IF ~isTruthy(condition.v) THEN R(condition.st, NoValue, NoErr)
            ELSE IF condition.st.iterations >= MaxIterations
            THEN R(condition.st, NoValue, Diverged)
            ELSE afterBody(execute(s.body, [condition.st EXCEPT !.iterations = @ + 1]))
    IN  loop(evaluate(s.c, st))

VisitBreakStatement(s, st) == R(st, NoValue, BreakError(st.depth))

VisitContinueStatement(s, st) == R(st, NoValue, ContinueError(st.depth))

\* the method loop of VisitClassStatement; class is the index the class will get
RECURSIVE defineMethods(_, _, _, _, _)
defineMethods(st, methods, idx, class, table) ==
    IF idx > Len(methods) THEN [st |-> st, table |-> table]
    ELSE LET method == methods[idx]
             fns1 == Append(st.fns, NewLoxFunction(method, st.Environment,
                                                   method.name = "init", 0, class))
         IN  defineMethods([st EXCEPT !.fns = fns1], methods, idx + 1, class,
                           Put(table, method.name, Len(fns1)))

NewLoxClass(name, superclass, methods) ==
    [ClassName |-> name, Superclass |-> superclass, Methods |-> methods]

VisitClassStatement(s, st) ==
    LET declareClass(sup) ==
        IF sup.err.k # "none" THEN R(sup.st, NoValue, sup.err)
        ELSE IF s.super # NoExpr /\ sup.v.t # "class"
        THEN R(sup.st, NoValue, RuntimeError("Superclass must be a class."))
        ELSE
        LET superclass == IF s.super # NoExpr THEN sup.v.id ELSE 0
            st1 == SetOrigin([sup.st EXCEPT !.envs = Environment_Define(@, sup.st.Environment,
                                                                        s.name, NewNilValue)],
                             sup.st.Environment, s.name, <<s.id, 0>>)
            envs2 == NewEnvironmentScope(st1.envs, st1.Environment)
            st2 == IF superclass # 0
                   THEN [st1 EXCEPT !.envs = Environment_Define(envs2, Len(envs2), "super",
                                                                NewClassValue(superclass)),
                                    !.Environment = Len(envs2)]
                   ELSE st1
            class == Len(st2.classes) + 1
            m == defineMethods(st2, s.methods, 1, class, EmptyMap)
            st3 == [m.st EXCEPT !.classes = Append(@, NewLoxClass(s.name, superclass, m.table))]
            st4 == IF superclass # 0
                   THEN [st3 EXCEPT !.Environment = st3.envs[st3.Environment].Enclosing]
                   ELSE st3
            w == Environment_Assign(st4.envs, st4.Environment, s.name, NewClassValue(class))
        IN  R([st4 EXCEPT !.envs = w.envs], NoValue, NoErr)
    IN  declareClass(IF s.super # NoExpr THEN evaluate(s.super, st) ELSE R(st, NoValue, NoErr))

execute(s, st) ==
    CASE s.k = "expression" -> VisitExpressionStatement(s, st)
      [] s.k = "function" -> VisitFunctionStatement(s, st)
      [] s.k = "print" -> VisitPrintStatement(s, st)
      [] s.k = "return" -> VisitReturnStatement(s, st)
      [] s.k = "block" -> VisitBlockStatement(s, st)
      [] s.k = "if" -> VisitIfStatement(s, st)
      [] s.k = "var" -> VisitVarStatement(s, st)
      [] s.k = "while" -> VisitWhileStatement(s, st)
      [] s.k = "break" -> VisitBreakStatement(s, st)
      [] s.k = "continue" -> VisitContinueStatement(s, st)
      [] s.k = "class" -> VisitClassStatement(s, st)
      [] s.k = "nostmt" -> R(st, NoValue, Panic)

---------------------------------------------------------------------------
(* Resolver.  rs is the resolver's state: Scopes (a stack of maps from a   *)
(* name to "defined"), CurrentFunction, the Locals it writes into the      *)
(* interpreter, and the part of the reporting state it changes (hadError,  *)
(* reports).  No visitor of the resolver returns an error, so the error    *)
(* results are left out.                                                   *)

FunctionTypeNone == 0

FunctionTypeFunction == 1

FunctionTypeMethod == 2

\* report: hadError = true, whatever it was
report(flag) == TRUE

\* reports: the diagnostics written, in order
reportError(rs, message) ==
    [rs EXCEPT !.hadError = report(@), !.reports = Append(@, message)]

beginScope(rs) == [rs EXCEPT !.Scopes = Append(@, EmptyMap)]

endScope(rs) == [rs EXCEPT !.Scopes = SubSeq(@, 1, Len(@) - 1)]

declare_m(rs, name) ==
    IF Len(rs.Scopes) = 0 THEN rs
    ELSE LET top == Len(rs.Scopes)
             rs1 == IF name \in DOMAIN rs.Scopes[top]
                    THEN reportError(rs, "Already a variable with this name in this scope.")
                    ELSE rs
         IN  [rs1 EXCEPT !.Scopes[top] = Put(@, name, TRUE)]

declare(rs, name) ==
    IF Len(rs.Scopes) = 0 THEN rs
    ELSE LET top == Len(rs.Scopes)
             rs1 == IF name \in DOMAIN rs.Scopes[top]
                    THEN reportError(rs, "Already a variable with this name in this scope.")
                    ELSE rs
         IN  [rs1 EXCEPT !.Scopes[top] = Put(@, name, FALSE)]

define(rs, name) ==
    IF Len(rs.Scopes) = 0 THEN rs
    ELSE [rs EXCEPT !.Scopes[Len(rs.Scopes)] = Put(@, name, TRUE)]

\* the scope loop of resolveLocal, from the innermost scope outwards
RECURSIVE resolveLocalFrom(_, _, _, _)
resolveLocalFrom(rs, id, name, idx) ==
    IF idx < 1 THEN rs
    ELSE IF name \in DOMAIN rs.Scopes[idx]
    THEN [rs EXCEPT !.Locals = Put(@, id, Len(rs.Scopes) - idx)]
    ELSE resolveLocalFrom(rs, id, name, idx - 1)

resolveLocal_m(rs, id, name) ==
    LET rs1 == resolveLocalFrom(rs, id, name, Len(rs.Scopes))
    IN  IF id \in DOMAIN rs1.Locals /\ rs1.Locals[id] = 0
        THEN [rs1 EXCEPT !.Locals[id] = 1]
        ELSE rs1

resolveLocal(rs, id, name) == resolveLocalFrom(rs, id, name, Len(rs.Scopes))

RECURSIVE resolveExpression(_, _)
RECURSIVE resolveStatement(_, _)

RECURSIVE resolveExpressions(_, _, _)
resolveExpressions(rs, es, idx) ==
    IF idx > Len(es) THEN rs
    ELSE LET rs1 == resolveExpression(rs, es[idx])
         IN  IF rs1.panicked THEN rs1 ELSE resolveExpressions(rs1, es, idx + 1)

RECURSIVE resolveStatementsFrom(_, _, _)
resolveStatementsFrom(rs, stmts, idx) ==
    IF idx > Len(stmts) THEN rs
    ELSE LET rs1 == resolveStatement(rs, stmts[idx])
         IN  IF rs1.panicked THEN rs1 ELSE resolveStatementsFrom(rs1, stmts, idx + 1)

resolveStatements(rs, stmts) == resolveStatementsFrom(rs, stmts, 1)

RECURSIVE declareParams(_, _, _)
declareParams(rs, params, idx) ==
    IF idx > Len(params) THEN rs
    ELSE LET rs1 == define(declare(rs, params[idx]), params[idx])
         IN  IF rs1.panicked THEN rs1 ELSE declareParams(rs1, params, idx + 1)

resolveFunction(rs, function, functionType) ==
    LET enclosingFunction == rs.CurrentFunction
        rs1 == beginScope([rs EXCEPT !.CurrentFunction = functionType])
        rs2 == declareParams(rs1, function.params, 1)
        rs3 == resolveStatements(rs2, function.body)
    IN  [endScope(rs3) EXCEPT !.CurrentFunction = enclosingFunction]

RECURSIVE resolveMethods(_, _, _)
resolveMethods(rs, methods, idx) ==
    IF idx > Len(methods) THEN rs
    ELSE LET rs1 == resolveFunction(rs, methods[idx], FunctionTypeMethod)
         IN  IF rs1.panicked THEN rs1 ELSE resolveMethods(rs1, methods, idx + 1)

\* the scope that binds super, opened around the scope of this; resolver.go
\* has no code for super, so this and Resolver_VisitSuperExpression follow
\* the language description
beginSuperScope(rs, s) ==
    IF s.super = NoExpr THEN rs
    ELSE LET rs1 == IF s.super.name = s.name
                    THEN reportError(rs, "A class can't inherit from itself.")
                    ELSE rs
             rs2 == beginScope(resolveExpression(rs1, s.super))
         IN  [rs2 EXCEPT !.Scopes[Len(rs2.Scopes)] = Put(@, "super", TRUE)]

endSuperScope(rs, s) == IF s.super = NoExpr THEN rs ELSE endScope(rs)

Resolver_VisitClassStatement(rs, s) ==
    LET rs1 == beginSuperScope(define(declare(rs, s.name), s.name), s)
        rs2 == beginScope(rs1)
        rs3 == [rs2 EXCEPT !.Scopes[Len(rs2.Scopes)] = Put(@, "this", TRUE)]
        rs4 == resolveMethods(rs3, s.methods, 1)
    IN  endSuperScope(endScope(rs4), s)

Resolver_VisitVarStatement(rs, s) ==
    LET rs1 == declare(rs, s.name)
        rs2 == IF s.init # NoExpr THEN resolveExpression(rs1, s.init) ELSE rs1
    IN  define(rs2, s.name)

Resolver_VisitReturnStatement(rs, s) ==
    LET rs1 == IF rs.CurrentFunction = FunctionTypeNone
               THEN reportError(rs, "Can't return from top-level code.")
               ELSE rs
    IN  IF s.e # NoExpr THEN resolveExpression(rs1, s.e) ELSE rs1

Resolver_VisitIfStatement(rs, s) ==
    LET rs1 == resolveStatement(resolveExpression(rs, s.c), s.then)
    IN  IF s.else # NoStmt THEN resolveStatement(rs1, s.else) ELSE rs1

resolveStatement(rs, s) ==
    CASE s.k = "expression" -> resolveExpression(rs, s.e)
      [] s.k = "function" ->
            resolveFunction(define(declare(rs, s.name), s.name), s, FunctionTypeFunction)
      [] s.k = "print" -> resolveExpression(rs, s.e)
      [] s.k = "return" -> Resolver_VisitReturnStatement(rs, s)
      [] s.k = "block" -> endScope(resolveStatements(beginScope(rs), s.body))
      [] s.k = "if" -> Resolver_VisitIfStatement(rs, s)
      [] s.k = "var" -> Resolver_VisitVarStatement(rs, s)
      [] s.k = "while" -> resolveStatement(resolveExpression(rs, s.c), s.body)
      [] s.k = "break" -> rs
      [] s.k = "continue" -> rs
      [] s.k = "class" -> Resolver_VisitClassStatement(rs, s)
      [] s.k = "nostmt" -> [rs EXCEPT !.panicked = TRUE]

Resolver_VisitVariableExpression(rs, e) ==
    LET top == Len(rs.Scopes)
        rs1 == IF top # 0 /\ e.name \in DOMAIN rs.Scopes[top] /\ ~rs.Scopes[top][e.name]
               THEN reportError(rs, "Can't read local variable in its own initializer.")
               ELSE rs
    IN  resolveLocal(rs1, e.id, e.name)

\* super is resolved like a variable named super; outside a subclass no
\* scope binds it, which is a static error
Resolver_VisitSuperExpression(rs, e) ==
    LET rs1 == IF \A idx \in 1..Len(rs.Scopes) : "super" \notin DOMAIN rs.Scopes[idx]
               THEN reportError(rs, "Can't use 'super' outside of a subclass.")
               ELSE rs
    IN  resolveLocal(rs1, e.id, "super")

resolveExpression(rs, e) ==
    CASE e.k = "literal" -> rs
      [] e.k = "grouping" -> resolveExpression(rs, e.e)
      [] e.k = "variable" -> Resolver_VisitVariableExpression(rs, e)
      [] e.k = "this" -> resolveLocal(rs, e.id, "this")
      [] e.k = "assign" -> resolveLocal(resolveExpression(rs, e.value), e.id, e.name)
      [] e.k = "binary" -> resolveExpression(resolveExpression(rs, e.left), e.right)
      [] e.k = "logical" -> resolveExpression(resolveExpression(rs, e.left), e.right)
      [] e.k = "unary" -> resolveExpression(rs, e.right)
      [] e.k = "call" -> resolveExpressions(resolveExpression(rs, e.callee), e.args, 1)
      [] e.k = "get" -> resolveExpression(rs, e.object)
      [] e.k = "set" -> resolveExpression(resolveExpression(rs, e.value), e.object)
      [] e.k = "super" -> Resolver_VisitSuperExpression(rs, e)

NewResolver(locals) ==
    [Scopes |-> <<>>, CurrentFunction |-> FunctionTypeNone, Locals |-> locals,
     hadError |-> FALSE, reports |-> <<>>, panicked |-> FALSE]

---------------------------------------------------------------------------
(* Source files.  A source is given by the statements a clean parse of it  *)
(* yields; the text of each is in the comment above it.                    *)

N(n) == Literal(NewNumberValue(n))

S(s) == Literal(NewStringValue(s))

B(b) == Literal(NewBoolValue(b))

V(name, id) == Variable(name, id)

\* fun f() { 1; }  fun g() { var x = 2; }  fun h() { if (true) { 3; } }
\* fun p() { print 5; }  fun q() { return; }  fun k() { return 7; }
\* print f(); var a = g(); var b = h(); var c = p(); var d = q(); print k();
SrcImplicit == <<
    Fun("f", <<>>, <<ExprS(N(1))>>, 101),
    Fun("g", <<>>, <<VarS("x", N(2), 103)>>, 102),
    Fun("h", <<>>, <<IfS(B(TRUE), Block(<<ExprS(N(3))>>), NoStmt)>>, 104),
    Fun("p", <<>>, <<PrintS(N(5))>>, 105),
    Fun("q", <<>>, <<ReturnS(NoExpr)>>, 106),
    Fun("k", <<>>, <<ReturnS(N(7))>>, 107),
    PrintS(Call(V("f", 110), <<>>)),
    VarS("a", Call(V("g", 111), <<>>), 112),
    VarS("b", Call(V("h", 113), <<>>), 114),
    VarS("c", Call(V("p", 115), <<>>), 116),
    VarS("d", Call(V("q", 117), <<>>), 118),
    PrintS(Call(V("k", 119), <<>>)) >>

\* class C { init() { this.x = 1; missing; this.y = 2; } }
\* var o = C(); print "after"; print o.x;
SrcInitError == <<
    ClassS("C", NoExpr,
           <<Fun("init", <<>>, <<ExprS(SetE(This(201), "x", N(1))),
                                 ExprS(V("missing", 202)),
                                 ExprS(SetE(This(203), "y", N(2)))>>, 204)>>, 205),
    VarS("o", Call(V("C", 206), <<>>), 207),
    PrintS(S("after")),
    PrintS(GetE(V("o", 208), "x")) >>

\* fun f() { break; }  var i = 0;  while (i < 2) { i = i + 1; f(); }  print i;
SrcBreakInCallee == <<
    Fun("f", <<>>, <<BreakS>>, 301),
    VarS("i", N(0), 302),
    WhileS(Binary(V("i", 303), "<", N(2)),
           Block(<<ExprS(Assign("i", Binary(V("i", 304), "+", N(1)), 305)),
                   ExprS(Call(V("f", 306), <<>>))>>)),
    PrintS(V("i", 307)) >>

\* fun g() { continue; }  var i = 0;
\* while (i < 2) { i = i + 1; g(); print i; }
SrcContinueInCallee == <<
    Fun("g", <<>>, <<ContinueS>>, 311),
    VarS("i", N(0), 312),
    WhileS(Binary(V("i", 313), "<", N(2)),
           Block(<<ExprS(Assign("i", Binary(V("i", 314), "+", N(1)), 315)),
                   ExprS(Call(V("g", 316), <<>>)),
                   PrintS(V("i", 317))>>)) >>

\* print "a"; break; print "b";
SrcTopBreak == << PrintS(S("a")), BreakS, PrintS(S("b")) >>

\* fun f() { continue; }  f();  print "b";
SrcFunContinue == <<
    Fun("f", <<>>, <<ContinueS>>, 321),
    ExprS(Call(V("f", 322), <<>>)),
    PrintS(S("b")) >>

\* var i = 0;
\* while (i < 3) { if (i == 1) { i = i + 1; continue; } print i; i = i + 1; }
SrcLoop == <<
    VarS("i", N(0), 331),
    WhileS(Binary(V("i", 332), "<", N(3)),
           Block(<<IfS(Binary(V("i", 333), "==", N(1)),
                       Block(<<ExprS(Assign("i", Binary(V("i", 334), "+", N(1)), 335)),
                               ContinueS>>),
                       NoStmt),
                   PrintS(V("i", 336)),
                   ExprS(Assign("i", Binary(V("i", 337), "+", N(1)), 338))>>)) >>

\* fun f() { while (true) { break; } return 1; }
\* var n = 0;  while (n < 2) { n = n + f(); }  print n;
SrcLoopInCallee == <<
    Fun("f", <<>>, <<WhileS(B(TRUE), Block(<<BreakS>>)), ReturnS(N(1))>>, 341),
    VarS("n", N(0), 342),
    WhileS(Binary(V("n", 343), "<", N(2)),
           Block(<<ExprS(Assign("n", Binary(V("n", 344), "+", Call(V("f", 345), <<>>)), 346))>>)),
    PrintS(V("n", 347)) >>

\* print "x"; { var a = 1; var a = 2; print a; }
SrcRedeclare == <<
    PrintS(S("x")),
    Block(<<VarS("a", N(1), 401), VarS("a", N(2), 402), PrintS(V("a", 403))>>) >>

\* var x = 1; print x; return x;
SrcTopReturn == <<
    VarS("x", N(1), 411), PrintS(V("x", 412)), ReturnS(V("x", 413)) >>

\* var o = 1; { var a = a; } print "y";
SrcOwnInitializer == <<
    VarS("o", N(1), 421),
    Block(<<VarS("a", V("a", 422), 423)>>),
    PrintS(S("y")) >>

\* print 1; print -"a"; print 2;
SrcNegateString == <<
    PrintS(N(1)), PrintS(Unary("-", S("a"))), PrintS(N(2)) >>

\* var x = 1; x(); x = 2; print x;
SrcCallNumber == <<
    VarS("x", N(1), 501),
    ExprS(Call(V("x", 502), <<>>)),
    ExprS(Assign("x", N(2), 503)),
    PrintS(V("x", 504)) >>

\* fun f(a) { print a; }  f(1);  f();  f(2);
SrcArity == <<
    Fun("f", <<"a">>, <<PrintS(V("a", 511))>>, 512),
    ExprS(Call(V("f", 513), <<N(1)>>)),
    ExprS(Call(V("f", 514), <<>>)),
    ExprS(Call(V("f", 515), <<N(2)>>)) >>

\* var a = "global";
\* { fun show() { print a; }  show();  var a = "local";  show();  print a;
\*   a = "changed";  show(); }
\* print a;
SrcShow == <<
    VarS("a", S("global"), 601),
    Block(<<Fun("show", <<>>, <<PrintS(V("a", 603))>>, 602),
            ExprS(Call(V("show", 604), <<>>)),
            VarS("a", S("local"), 605),
            ExprS(Call(V("show", 606), <<>>)),
            PrintS(V("a", 607)),
            ExprS(Assign("a", S("changed"), 608)),
            ExprS(Call(V("show", 609), <<>>))>>),
    PrintS(V("a", 610)) >>

\* var f;  var s;
\* { var a = 1;  fun get() { return a; }  fun set(v) { a = v; }  f = get;  s = set; }
\* var a = 2;  s(5);  print f();  print a;  a = 3;  print f();
SrcEscape == <<
    VarS("f", NoExpr, 701),
    VarS("s", NoExpr, 702),
    Block(<<VarS("a", N(1), 703),
            Fun("get", <<>>, <<ReturnS(V("a", 705))>>, 704),
            Fun("set", <<"v">>, <<ExprS(Assign("a", V("v", 708), 707))>>, 706),
            ExprS(Assign("f", V("get", 710), 709)),
            ExprS(Assign("s", V("set", 712), 711))>>),
    VarS("a", N(2), 713),
    ExprS(Call(V("s", 714), <<N(5)>>)),
    PrintS(Call(V("f", 715), <<>>)),
    PrintS(V("a", 716)),
    ExprS(Assign("a", N(3), 717)),
    PrintS(Call(V("f", 718), <<>>)) >>

\* fun make() { var c = 0;  fun inc() { c = c + 1; return c; }  return inc; }
\* var a = make();  var b = make();  print a();  print a();  print b();
SrcCounter == <<
    Fun("make", <<>>,
        <<VarS("c", N(0), 802),
          Fun("inc", <<>>, <<ExprS(Assign("c", Binary(V("c", 805), "+", N(1)), 804)),
                             ReturnS(V("c", 806))>>, 803),
          ReturnS(V("inc", 807))>>, 801),
    VarS("a", Call(V("make", 809), <<>>), 808),
    VarS("b", Call(V("make", 811), <<>>), 810),
    PrintS(Call(V("a", 812), <<>>)),
    PrintS(Call(V("a", 813), <<>>)),
    PrintS(Call(V("b", 814), <<>>)) >>

\* class C { m() { return this; }  set(v) { this.v = v; return this.v; } }
\* var a = C();  var b = C();  var m = a.m;  var n = b.m;  b.f = m;
\* print m() == a;  print b.f() == a;  print n() == b;  print a.m() == a;
\* var s = a.set;  s(4);  print a.v;
SrcMethod == <<
    ClassS("C", NoExpr,
           <<Fun("m", <<>>, <<ReturnS(This(902))>>, 903),
             Fun("set", <<"v">>, <<ExprS(SetE(This(904), "v", V("v", 905))),
                                   ReturnS(GetE(This(906), "v"))>>, 907)>>, 908),
    VarS("a", Call(V("C", 909), <<>>), 910),
    VarS("b", Call(V("C", 911), <<>>), 912),
    VarS("m", GetE(V("a", 913), "m"), 914),
    VarS("n", GetE(V("b", 915), "m"), 916),
    ExprS(SetE(V("b", 917), "f", V("m", 918))),
    PrintS(Binary(Call(V("m", 919), <<>>), "==", V("a", 920))),
    PrintS(Binary(Call(GetE(V("b", 921), "f"), <<>>), "==", V("a", 922))),
    PrintS(Binary(Call(V("n", 923), <<>>), "==", V("b", 924))),
    PrintS(Binary(Call(GetE(V("a", 925), "m"), <<>>), "==", V("a", 926))),
    VarS("s", GetE(V("a", 927), "set"), 928),
    ExprS(Call(V("s", 929), <<N(4)>>)),
    PrintS(GetE(V("a", 930), "v")) >>

\* class C { init() { this.n = 1; return; } }  class D { init(x) { this.x = x; } }
\* var o = C();  var r = o.init();  print r == o;  print D(7).x;
\* var d = D(1);  print d.init(2) == d;  print d.x;
SrcInit == <<
    ClassS("C", NoExpr,
           <<Fun("init", <<>>, <<ExprS(SetE(This(1001), "n", N(1))), ReturnS(NoExpr)>>, 1002)>>,
           1003),
    ClassS("D", NoExpr,
           <<Fun("init", <<"x">>, <<ExprS(SetE(This(1004), "x", V("x", 1005)))>>, 1006)>>,
           1007),
    VarS("o", Call(V("C", 1008), <<>>), 1009),
    VarS("r", Call(GetE(V("o", 1010), "init"), <<>>), 1011),
    PrintS(Binary(V("r", 1012), "==", V("o", 1013))),
    PrintS(GetE(Call(V("D", 1014), <<N(7)>>), "x")),
    VarS("d", Call(V("D", 1015), <<N(1)>>), 1016),
    PrintS(Binary(Call(GetE(V("d", 1017), "init"), <<N(2)>>), "==", V("d", 1018))),
    PrintS(GetE(V("d", 1019), "x")) >>

\* class A { m() { return "A"; }  who() { return this; } }
\* class B < A { m() { return "B"; }  t() { return super.m(); }  w() { return super.who(); } }
\* class C < B { m() { return "C"; } }
\* var c = C();  print c.t();  print B().t();  print c.w() == c;  print c.m();
SrcSuper == <<
    ClassS("A", NoExpr,
           <<Fun("m", <<>>, <<ReturnS(S("A"))>>, 1101),
             Fun("who", <<>>, <<ReturnS(This(1102))>>, 1103)>>, 1104),
    ClassS("B", V("A", 1105),
           <<Fun("m", <<>>, <<ReturnS(S("B"))>>, 1106),
             Fun("t", <<>>, <<ReturnS(Call(Super("m", 1107), <<>>))>>, 1108),
             Fun("w", <<>>, <<ReturnS(Call(Super("who", 1109), <<>>))>>, 1110)>>, 1111),
    ClassS("C", V("B", 1112),
           <<Fun("m", <<>>, <<ReturnS(S("C"))>>, 1113)>>, 1114),
    VarS("c", Call(V("C", 1115), <<>>), 1116),
    PrintS(Call(GetE(V("c", 1117), "t"), <<>>)),
    PrintS(Call(GetE(Call(V("B", 1118), <<>>), "t"), <<>>)),
    PrintS(Binary(Call(GetE(V("c", 1119), "w"), <<>>), "==", V("c", 1120))),
    PrintS(Call(GetE(V("c", 1121), "m"), <<>>)) >>

\* class A { m() { print "A"; } }  class B < A { }
\* class C < B { m() { super.m(); print "C"; } }
\* C().m();
SrcSuperChain == <<
    ClassS("A", NoExpr, <<Fun("m", <<>>, <<PrintS(S("A"))>>, 1201)>>, 1202),
    ClassS("B", V("A", 1203), <<>>, 1204),
    ClassS("C", V("B", 1205),
           <<Fun("m", <<>>, <<ExprS(Call(Super("m", 1206), <<>>)), PrintS(S("C"))>>, 1207)>>,
           1208),
    ExprS(Call(GetE(Call(V("C", 1209), <<>>), "m"), <<>>)) >>

\* var t = clock();  print t;  print clock;
SrcClock == <<
    VarS("t", Call(V("clock", 1301), <<>>), 1302),
    PrintS(V("t", 1303)),
    PrintS(V("clock", 1304)) >>

\* fun fib(n) { if (n < 2) return n;  return fib(n - 1) + fib(n - 2); }
\* print fib(3);
SrcFib == <<
    Fun("fib", <<"n">>,
        <<IfS(Binary(V("n", 1401), "<", N(2)), ReturnS(V("n", 1402)), NoStmt),
          ReturnS(Binary(Call(V("fib", 1403), <<Binary(V("n", 1404), "-", N(1))>>), "+",
                         Call(V("fib", 1405), <<Binary(V("n", 1406), "-", N(2))>>)))>>, 1407),
    PrintS(Call(V("fib", 1408), <<N(3)>>)) >>

\* fun f() { var a = 1 + a; }  print "z";
SrcOwnInitializerInFunction == <<
    Fun("f", <<>>, <<VarS("a", Binary(N(1), "+", V("a", 1501)), 1502)>>, 1503),
    PrintS(S("z")) >>

\* var g = g;  print "w";
SrcGlobalInitializer == <<
    VarS("g", V("g", 1511), 1512), PrintS(S("w")) >>

\* { var a = 1; var b = a + 1; print b; }
SrcInitializerReadsOther == <<
    Block(<<VarS("a", N(1), 1521), VarS("b", Binary(V("a", 1522), "+", N(1)), 1523),
            PrintS(V("b", 1524))>>) >>

\* print "s";  print this;
SrcTopThis == <<
    PrintS(S("s")), PrintS(This(1531)) >>

\* fun f() { return this; }  print "t";  print f();
SrcFunThis == <<
    Fun("f", <<>>, <<ReturnS(This(1541))>>, 1542),
    PrintS(S("t")),
    PrintS(Call(V("f", 1543), <<>>)) >>

\* var a = 1;
SrcDefineA == << VarS("a", N(1), 1551) >>

\* print a;
SrcPrintA == << PrintS(V("a", 1561)) >>

\* a = a + 1;
SrcIncrementA == << ExprS(Assign("a", Binary(V("a", 1571), "+", N(1)), 1572)) >>

\* fun f() { { return 1; } }
\* var i = 0;
\* while (i < 2) { i = i + 1; if (i == 1) { continue; } { break; } }
\* { print i; }
\* { var a = 1; { print f(); print -"a"; } }
SrcBlockExits == <<
    Fun("f", <<>>, <<Block(<<ReturnS(N(1))>>)>>, 1601),
    VarS("i", N(0), 1602),
    WhileS(Binary(V("i", 1603), "<", N(2)),
           Block(<<ExprS(Assign("i", Binary(V("i", 1604), "+", N(1)), 1605)),
                   IfS(Binary(V("i", 1606), "==", N(1)), Block(<<ContinueS>>), NoStmt),
                   Block(<<BreakS>>)>>)),
    Block(<<PrintS(V("i", 1609))>>),
    Block(<<VarS("a", N(1), 1607),
            Block(<<PrintS(Call(V("f", 1608), <<>>)),
                    PrintS(Unary("-", S("a")))>>)>>) >>

\* { var x = 1;
\*   class A { m() { return x; } }
\*   class B < A { m(d) { x = x + d; return super.m() + this.k; } }
\*   var b = B();  b.k = 10;  print b.m(1); }
SrcNestedClass == <<
    Block(<<VarS("x", N(1), 1701),
            ClassS("A", NoExpr,
                   <<Fun("m", <<>>, <<ReturnS(V("x", 1702))>>, 1703)>>, 1704),
            ClassS("B", V("A", 1705),
                   <<Fun("m", <<"d">>,
                         <<ExprS(Assign("x", Binary(V("x", 1706), "+", V("d", 1707)), 1708)),
                           ReturnS(Binary(Call(Super("m", 1709), <<>>), "+",
                                          GetE(This(1710), "k")))>>, 1711)>>, 1712),
            VarS("b", Call(V("B", 1713), <<>>), 1714),
            ExprS(SetE(V("b", 1715), "k", N(10))),
            PrintS(Call(GetE(V("b", 1716), "m"), <<N(1)>>))>>) >>

\* fun f() { print "arg"; return 1; }  "s"(f());
SrcCallString == <<
    Fun("f", <<>>, <<PrintS(S("arg")), ReturnS(N(1))>>, 1801),
    ExprS(Call(S("s"), <<Call(V("f", 1802), <<>>)>>)) >>

\* fun f() { print "arg"; return 1; }  fun g(a) { }  g(f(), f());
SrcArityOrder == <<
    Fun("f", <<>>, <<PrintS(S("arg")), ReturnS(N(1))>>, 1811),
    Fun("g", <<"a">>, <<>>, 1812),
    ExprS(Call(V("g", 1813), <<Call(V("f", 1814), <<>>), Call(V("f", 1815), <<>>)>>)) >>

\* fun t() { print "t"; return 0; }  fun n() { print "n"; return nil; }
\* fun b() { print "b"; return false; }
\* print t() or n();   print n() or t();   print b() or n();
\* print n() and t();  print b() and t();  print t() and b();
SrcShortCircuit == <<
    Fun("t", <<>>, <<PrintS(S("t")), ReturnS(N(0))>>, 1901),
    Fun("n", <<>>, <<PrintS(S("n")), ReturnS(Literal(NewNilValue))>>, 1902),
    Fun("b", <<>>, <<PrintS(S("b")), ReturnS(B(FALSE))>>, 1903),
    PrintS(Logical(Call(V("t", 1904), <<>>), "or", Call(V("n", 1905), <<>>))),
    PrintS(Logical(Call(V("n", 1906), <<>>), "or", Call(V("t", 1907), <<>>))),
    PrintS(Logical(Call(V("b", 1908), <<>>), "or", Call(V("n", 1909), <<>>))),
    PrintS(Logical(Call(V("n", 1910), <<>>), "and", Call(V("t", 1911), <<>>))),
    PrintS(Logical(Call(V("b", 1912), <<>>), "and", Call(V("t", 1913), <<>>))),
    PrintS(Logical(Call(V("t", 1914), <<>>), "and", Call(V("b", 1915), <<>>))) >>

\* fun g() { var a = "g"; return a; }
\* fun f(a) { var b = g(); return a; }
\* print f("f");
\* fun outer() { var x = 1; fun inner() { x = 2; } inner(); return x; }
\* print outer();
\* fun h() { return y; }
\* fun k(y) { return h(); }
\* print k(1);
SrcFrames == <<
    Fun("g", <<>>, <<VarS("a", S("g"), 2001), ReturnS(V("a", 2002))>>, 2003),
    Fun("f", <<"a">>, <<VarS("b", Call(V("g", 2004), <<>>), 2005),
                        ReturnS(V("a", 2006))>>, 2007),
    PrintS(Call(V("f", 2008), <<S("f")>>)),
    Fun("outer", <<>>,
        <<VarS("x", N(1), 2009),
          Fun("inner", <<>>, <<ExprS(Assign("x", N(2), 2010))>>, 2011),
          ExprS(Call(V("inner", 2012), <<>>)),
          ReturnS(V("x", 2013))>>, 2014),
    PrintS(Call(V("outer", 2015), <<>>)),
    Fun("h", <<>>, <<ReturnS(V("y", 2016))>>, 2017),
    Fun("k", <<"y">>, <<ReturnS(Call(V("h", 2018), <<>>))>>, 2019),
    PrintS(Call(V("k", 2020), <<N(1)>>)) >>

Sources == <<
    SrcImplicit, SrcInitError, SrcBreakInCallee, SrcContinueInCallee, SrcTopBreak,
    SrcFunContinue, SrcLoop, SrcLoopInCallee, SrcRedeclare, SrcTopReturn,
    SrcOwnInitializer, SrcNegateString, SrcCallNumber, SrcArity, SrcShow, SrcEscape,
    SrcCounter, SrcMethod, SrcInit, SrcSuper, SrcSuperChain, SrcClock, SrcFib,
    SrcOwnInitializerInFunction, SrcGlobalInitializer, SrcInitializerReadsOther,
    SrcTopThis, SrcFunThis, SrcDefineA, SrcPrintA, SrcIncrementA, SrcBlockExits,
    SrcNestedClass, SrcCallString, SrcArityOrder, SrcShortCircuit, SrcFrames >>

\* the wall clock readings a run may see, in seconds
ClockReadings == {1700000000, 1700000001}

---------------------------------------------------------------------------
(* Scanner.  s is the scanner: source (the runes, a sequence of one-       *)
(* character strings), Tokens, Start, Current (offsets from 0, as in the   *)
(* Go code), Line, and the part of the reporting state it changes          *)
(* (hadError, reports).  NUL is the rune 0.                                *)

NUL == "^@"

Digits == {"0", "1", "2", "3", "4", "5", "6", "7", "8", "9"}

Letters == {"a", "b", "c", "d", "e", "f", "g", "h", "i", "j", "k", "l", "m",
            "n", "o", "p", "q", "r", "s", "t", "u", "v", "w", "x", "y", "z"}

IsDigit(ch) == ch \in Digits

IsAlpha(ch) == ch \in Letters \/ ch = "_"

IsAlphaNumeric(ch) == ch \in Letters \/ ch = "_" \/ ch \in Digits

keywords ==
    [text \in {"and", "or", "if", "else", "class", "super", "this", "true", "false",
               "fun", "for", "while", "nil", "print", "return", "var"} |->
        CASE text = "and" -> "And"        [] text = "or" -> "Or"
          [] text = "if" -> "If"          [] text = "else" -> "Else"
          [] text = "class" -> "Class"    [] text = "super" -> "Super"
          [] text = "this" -> "This"      [] text = "true" -> "True"
          [] text = "false" -> "False"    [] text = "fun" -> "Fun"
          [] text = "for" -> "For"        [] text = "while" -> "While"
          [] text = "nil" -> "Nil"        [] text = "print" -> "Print"
          [] text = "return" -> "Return"  [] text = "var" -> "Var"]

\* string(runes)
RECURSIVE Text(_)
Text(runes) == IF runes = <<>> THEN "" ELSE Head(runes) \o Text(Tail(runes))

NewScanner(source) ==
    [source |-> source, Tokens |-> <<>>, Start |-> 0, Current |-> 0, Line |-> 1,
     hadError |-> FALSE, reports |-> <<>>]

reset(s) == [s EXCEPT !.Tokens = <<>>, !.Start = 0, !.Current = 0, !.Line = 1]

isAtEnd(s) == s.Current >= Len(s.source)

peek(s) == IF isAtEnd(s) THEN NUL ELSE s.source[s.Current + 1]

peekNext(s) == IF s.Current + 1 >= Len(s.source) THEN NUL ELSE s.source[s.Current + 2]

\* advance: the scanner it leaves (the rune it returns is peek of the scanner before)
advance(s) == IF isAtEnd(s) THEN s ELSE [s EXCEPT !.Current = @ + 1]

\* match(expected): whether it consumed the rune
match(s, expected) == ~isAtEnd(s) /\ s.source[s.Current + 1] = expected

lexeme(s) ==
    LET end == IF Len(s.source) < s.Current THEN Len(s.source) ELSE s.Current
    IN  Text(SubSeq(s.source, s.Start + 1, end))

addTokenLiteral(s, tokenType, literal) ==
    [s EXCEPT !.Tokens = Append(@, [Type |-> tokenType, Lexeme |-> lexeme(s),
                                    Literal |-> literal, Line |-> s.Line])]

addToken(s, tokenType) == addTokenLiteral(s, tokenType, "")

\* s.error(line, message): report(line, "", message)
ScanDiagnostic(line, message) ==
    [kind |-> "scan", line |-> line, message |-> message, stream |-> "stdout"]

Scanner_error(s, line, message) ==
    [s EXCEPT !.hadError = TRUE, !.reports = Append(@, ScanDiagnostic(line, message))]

RECURSIVE singleComment(_)
singleComment(s) ==
    IF peek(s) = "\n" \/ peek(s) = NUL THEN s ELSE singleComment(advance(s))

RECURSIVE multiCommentLoop(_)
multiCommentLoop(s) ==
    IF (peek(s) = "*" /\ peekNext(s) = "/") \/ peek(s) = NUL
    THEN s
    ELSE multiCommentLoop(advance(IF peek(s) = "\n" THEN [s EXCEPT !.Line = @ + 1] ELSE s))

multiComment(s) ==
    LET after(s1) ==
            IF isAtEnd(s1)
            THEN Scanner_error(s1, s1.Line,
                               "Unterminated multi-line comment '" \o lexeme(s1) \o "'")
            ELSE advance(advance(s1))
    IN  after(multiCommentLoop(s))

RECURSIVE stringLiteralLoop(_)
stringLiteralLoop(s) ==
    IF peek(s) = "\"" \/ peek(s) = NUL
    THEN s
    ELSE stringLiteralLoop(advance(IF peek(s) = "\n" THEN [s EXCEPT !.Line = @ + 1] ELSE s))

stringLiteral(s) ==
    LET close(s2) ==
            addTokenLiteral(s2, "String", Text(SubSeq(s2.source, s2.Start + 2, s2.Current - 1)))
        after(s1) ==
            IF isAtEnd(s1)
            THEN Scanner_error(s1, s1.Line,
                               "Unterminated string literal '" \o lexeme(s1) \o "'")
            ELSE close(advance(s1))
    IN  after(stringLiteralLoop(s))

RECURSIVE digits(_)
digits(s) == IF IsDigit(peek(s)) THEN digits(advance(s)) ELSE s

\* strconv.ParseFloat accepts every lexeme of digits with an optional
\* fraction (it fails only beyond the range of float64)
numberLiteral(s) ==
    LET fraction(s1) ==
            IF peek(s1) = "." /\ IsDigit(peekNext(s1)) THEN digits(advance(s1)) ELSE s1
        add(s2) == addTokenLiteral(s2, "Number", lexeme(s2))
    IN  add(fraction(digits(s)))

RECURSIVE identifierLoop(_)
identifierLoop(s) == IF IsAlphaNumeric(peek(s)) THEN identifierLoop(advance(s)) ELSE s

identifier(s) ==
    LET add(s1, text) ==
            addToken(s1, IF text \in DOMAIN keywords THEN keywords[text] ELSE "Identifier")
        named(s1) == add(s1, lexeme(s1))
    IN  named(identifierLoop(s))

\* the one- and two-character tokens of scanToken
twoCharacter(s, single, double) ==
    IF match(s, "=") THEN addToken(advance(s), double) ELSE addToken(s, single)

\* the default case of scanToken for a rune that starts no token
unexpectedCharacter_m(s, ch) ==
    [s |-> Scanner_error(s, s.Line, "Unexpected character '" \o ch \o "'"), more |-> FALSE]

unexpectedCharacter(s, ch) ==
    [s |-> Scanner_error(s, s.Line, "Unexpected character '" \o ch \o "'"), more |-> TRUE]

\* scanToken after ch := s.advance(): the scanner it leaves and its result
scanTokenSwitch(s, ch) ==
    CASE ch = "(" -> [s |-> addToken(s, "LeftParen"), more |-> TRUE]
      [] ch = ")" -> [s |-> addToken(s, "RightParen"), more |-> TRUE]
      [] ch = "{" -> [s |-> addToken(s, "LeftBrace"), more |-> TRUE]
      [] ch = "}" -> [s |-> addToken(s, "RightBrace"), more |-> TRUE]
      [] ch = "," -> [s |-> addToken(s, "Comma"), more |-> TRUE]
      [] ch = "." -> [s |-> addToken(s, "Dot"), more |-> TRUE]
      [] ch = "-" -> [s |-> addToken(s, "Minus"), more |-> TRUE]
      [] ch = "+" -> [s |-> addToken(s, "Plus"), more |-> TRUE]
      [] ch = ";" -> [s |-> addToken(s, "Semicolon"), more |-> TRUE]
      [] ch = "*" -> [s |-> addToken(s, "Star"), more |-> TRUE]
      [] ch = "/" -> [s |-> IF match(s, "/") THEN singleComment(advance(s))
                            ELSE IF match(s, "*") THEN multiComment(advance(s))
                            ELSE addToken(s, "Slash"),
                      more |-> TRUE]
      [] ch = "!" -> [s |-> twoCharacter(s, "Bang", "BangEqual"), more |-> TRUE]
      [] ch = "=" -> [s |-> twoCharacter(s, "Equal", "EqualEqual"), more |-> TRUE]
      [] ch = "<" -> [s |-> twoCharacter(s, "Less", "LessEqual"), more |-> TRUE]
      [] ch = ">" -> [s |-> twoCharacter(s, "Greater", "GreaterEqual"), more |-> TRUE]
      [] ch = "\"" -> [s |-> stringLiteral(s), more |-> TRUE]
      [] ch \in {" ", "\r", "\t"} -> [s |-> s, more |-> TRUE]
      [] ch = "\n" -> [s |-> [s EXCEPT !.Line = @ + 1], more |-> TRUE]
      [] ch = NUL -> [s |-> s, more |-> FALSE]
      [] OTHER -> IF IsDigit(ch) THEN [s |-> numberLiteral(s), more |-> TRUE]
                  ELSE IF IsAlpha(ch) THEN [s |-> identifier(s), more |-> TRUE]
                  ELSE unexpectedCharacter(s, ch)

scanToken(s) == scanTokenSwitch(advance(s), peek(s))

\* one round of the loop of ScanTokens
scanRound(s) == scanToken([s EXCEPT !.Start = s.Current])

\* ScanTokens after its loop
appendEOF(s) ==
    [s EXCEPT !.Tokens = Append(@, [Type |-> "EOF", Lexeme |-> "", Literal |-> "",
                                    Line |-> s.Line])]

---------------------------------------------------------------------------
(* Parser (expressions).  p is the parser: Tokens, Current (an offset from *)
(* 0, as in the Go code) and the part of the reporting state it changes    *)
(* (hadError, reports).  A parsing method returns the parser it leaves,    *)
(* the expression and the error.  A node made from a token takes           *)
(* the offset of the token as its id.  A number literal keeps the text     *)
(* strconv.ParseFloat read, which %g prints back unchanged for the numbers *)
(* used here.                                                              *)

ParserError(message) == [k |-> "parser", msg |-> message]

NewNumberLiteral(text) == [t |-> "number", text |-> text]

Grouping(e) == [k |-> "grouping", e |-> e]

Ternary(c, true, false) == [k |-> "ternary", c |-> c, true |-> true, false |-> false]

NewParser(tokens) ==
    [Tokens |-> tokens, Current |-> 0, hadError |-> FALSE, reports |-> <<>>,
     syncs |-> <<>>]

PR(p, expr, err) == [p |-> p, expr |-> expr, err |-> err]

Parser_peek(p) == p.Tokens[p.Current + 1]

Parser_previous(p) == p.Tokens[p.Current]

Parser_isAtEnd(p) == Parser_peek(p).Type = "EOF"

Parser_check(p, tokenType) == ~Parser_isAtEnd(p) /\ Parser_peek(p).Type = tokenType

\* advance: the parser it leaves (the token it returns is previous of that)
Parser_advance(p) == IF ~Parser_isAtEnd(p) THEN [p EXCEPT !.Current = @ + 1] ELSE p

\* match(tokenTypes...): whether it advanced
Parser_match(p, tokenTypes) == \E tokenType \in tokenTypes : Parser_check(p, tokenType)

Parser_error(p, token, message) ==
    [p EXCEPT !.hadError = TRUE,
              !.reports = Append(@, [kind |-> "parse", line |-> token.Line,
                                     where |-> IF token.Type = "EOF" THEN " at end"
                                               ELSE " at '" \o token.Lexeme \o "'",
                                     message |-> message, stream |-> "stdout"])]

Parser_consume_m(p, tokenType, message) ==
    IF Parser_check(p, tokenType)
    THEN [p |-> Parser_advance(p), err |-> NoErr]
    ELSE [p |-> p, err |-> ParserError(message)]

Parser_consume(p, tokenType, message) ==
    IF Parser_check(p, tokenType)
    THEN [p |-> Parser_advance(p), err |-> NoErr]
    ELSE [p |-> Parser_error(p, Parser_peek(p), message), err |-> ParserError(message)]

RECURSIVE expression(_)
RECURSIVE operand(_, _)
RECURSIVE binaryLoop(_, _, _)
RECURSIVE logicalLoop(_, _, _)
RECURSIVE unary(_)
RECURSIVE factor(_)
RECURSIVE term(_)
RECURSIVE comparison(_)
RECURSIVE equality(_)
RECURSIVE Parser_and(_)
RECURSIVE ternary(_)
RECURSIVE assignment(_)

\* the for loop of binaryExpression; left is the expression built so far
binaryLoop(left, name, tokenTypes) ==
    IF ~Parser_match(left.p, tokenTypes) THEN left
    ELSE LET build(operator, right) ==
                 IF right.err # NoErr THEN PR(right.p, left.expr, right.err)
                 ELSE binaryLoop(PR(right.p, Binary(left.expr, operator.Lexeme, right.expr),
                                    NoErr),
                                 name, tokenTypes)
             after(p1) == build(Parser_previous(p1), operand(name, p1))
         IN  after(Parser_advance(left.p))

\* binaryExpression(operand, tokenTypes...): the operand function is given by
\* the result of its first call and, for the calls of the loop, by its name
binaryExpression(first, name, tokenTypes) ==
    IF first.err # NoErr THEN first ELSE binaryLoop(first, name, tokenTypes)

\* the for loop of or and of and
logicalLoop(left, name, tokenTypes) ==
    IF ~Parser_match(left.p, tokenTypes) THEN left
    ELSE LET build(operator, right) ==
                 IF right.err # NoErr THEN PR(right.p, left.expr, right.err)
                 ELSE logicalLoop(PR(right.p,
                                     Logical(left.expr, operator.Lexeme, right.expr), NoErr),
                                  name, tokenTypes)
             after(p1) == build(Parser_previous(p1), operand(name, p1))
         IN  after(Parser_advance(left.p))

\* or and and: the first operand, then the loop
logicalExpression(first, name, tokenTypes) ==
    IF first.err # NoErr THEN first ELSE logicalLoop(first, name, tokenTypes)

primary(p) ==
    LET group(inner, consumed) ==
            IF consumed.err # NoErr THEN PR(consumed.p, NoExpr, consumed.err)
            ELSE PR(consumed.p, Grouping(inner.expr), NoErr)
        paren(inner) ==
            IF inner.err # NoErr THEN PR(inner.p, NoExpr, inner.err)
            ELSE group(inner, Parser_consume(inner.p, "RightParen",
                                             "Expect ')' after expression."))
        literal(p1, token) ==
            CASE token.Type = "False" -> PR(p1, Literal(NewBoolValue(FALSE)), NoErr)
              [] token.Type = "True" -> PR(p1, Literal(NewBoolValue(TRUE)), NoErr)
              [] token.Type = "Nil" -> PR(p1, Literal(NewNilValue), NoErr)
              [] token.Type = "Number" -> PR(p1, Literal(NewNumberLiteral(token.Literal)), NoErr)
              [] token.Type = "String" -> PR(p1, Literal(NewStringValue(token.Literal)), NoErr)
              [] token.Type = "Identifier" -> PR(p1, Variable(token.Lexeme, p1.Current), NoErr)
              [] token.Type = "LeftParen" -> paren(expression(p1))
        matched(p1) == literal(p1, Parser_previous(p1))
    IN  IF Parser_match(p, {"False", "True", "Nil", "Number", "String", "Identifier",
                            "LeftParen"})
        THEN matched(Parser_advance(p))
        ELSE PR(Parser_error(p, Parser_peek(p), "Expect expression."), NoExpr,
                ParserError("Expect expression."))

unary(p) ==
    IF ~Parser_match(p, {"Bang", "Minus"}) THEN primary(p)
    ELSE LET build(operator, right) ==
                 IF right.err # NoErr THEN right
                 ELSE PR(right.p, Unary(operator.Lexeme, right.expr), NoErr)
             after(p1) == build(Parser_previous(p1), unary(p1))
         IN  after(Parser_advance(p))

factor_m(p) == binaryExpression(unary(p), "unary", {"Slash", "Star", "Minus", "Plus"})

factor(p) == binaryExpression(unary(p), "unary", {"Slash", "Star"})

term(p) == binaryExpression(factor(p), "factor", {"Minus", "Plus"})

comparison(p) ==
    binaryExpression(term(p), "term", {"Greater", "GreaterEqual", "Less", "LessEqual"})

equality(p) == binaryExpression(comparison(p), "comparison", {"BangEqual", "EqualEqual"})

Parser_and(p) == logicalExpression(equality(p), "equality", {"And"})

Parser_or(p) == logicalExpression(Parser_and(p), "and", {"Or"})

ternary(p) ==
    LET build(cond, left, right) ==
            IF right.err # NoErr THEN PR(right.p, cond.expr, right.err)
            ELSE PR(right.p, Ternary(cond.expr, left.expr, right.expr), NoErr)
        colon(cond, left, consumed) ==
            IF consumed.err # NoErr THEN PR(consumed.p, cond.expr, consumed.err)
            ELSE build(cond, left, ternary(consumed.p))
        withLeft(cond, left) ==
            IF left.err # NoErr THEN PR(left.p, cond.expr, left.err)
            ELSE colon(cond, left,
                       Parser_consume(left.p, "Colon", "Expect ':' after expression."))
        question(c) ==
            IF c.err # NoErr THEN c
            ELSE IF ~Parser_match(c.p, {"Question"}) THEN c
            ELSE withLeft(c, expression(Parser_advance(c.p)))
    IN  question(Parser_or(p))

assignment(p) ==
    LET assign(tgt, equals, value) ==
            IF value.err # NoErr THEN PR(value.p, tgt.expr, value.err)
            ELSE IF tgt.expr.k = "variable"
            THEN PR(value.p, Assign(tgt.expr.name, value.expr, equals), NoErr)
            ELSE PR(Parser_error(value.p, Parser_previous([value.p EXCEPT !.Current = equals]),
                                 "Invalid assignment target."),
                    tgt.expr, NoErr)
        after(tgt, p1) == assign(tgt, p1.Current, assignment(p1))
        equal(target) ==
            IF target.err # NoErr THEN target
            ELSE IF ~Parser_match(target.p, {"Equal"}) THEN target
            ELSE after(target, Parser_advance(target.p))
    IN  equal(ternary(p))

comma(p) == binaryExpression(assignment(p), "assignment", {"Comma"})

expression(p) == comma(p)

\* the operand function named by a binaryExpression or by or and and
operand(name, p) ==
    CASE name = "assignment" -> assignment(p)
      [] name = "and" -> Parser_and(p)
      [] name = "equality" -> equality(p)
      [] name = "comparison" -> comparison(p)
      [] name = "term" -> term(p)
      [] name = "factor" -> factor(p)
      [] name = "unary" -> unary(p)

---------------------------------------------------------------------------
(* Parser (statements).  The result of a statement method is               *)
(* [p, stmt, err]; stmt is NoStmt where the Go code returns nil.  The      *)
(* parser's syncs field is history: for each declaration dropped by error  *)
(* recovery, where the declaration started, where the error left the       *)
(* parser and where synchronize left it (offsets into Tokens, from 0).     *)

SR(p, stmt, err) == [p |-> p, stmt |-> stmt, err |-> err]

StatementKeywords == {"Class", "For", "Fun", "If", "Print", "Return", "Var", "While"}

RECURSIVE synchronizeLoop(_)
synchronizeLoop(p) ==
    IF Parser_isAtEnd(p) THEN p
    ELSE IF Parser_previous(p).Type = "Semicolon" THEN p
    ELSE IF Parser_peek(p).Type \in StatementKeywords THEN p
    ELSE synchronizeLoop(Parser_advance(p))

synchronize(p) == synchronizeLoop(Parser_advance(p))

\* the parser method of that name, applied to p
RECURSIVE method(_, _)

\* after match(Var)
variableDeclaration(p) ==
    LET build(name, id, init, semi) ==
            IF semi.err # NoErr THEN SR(semi.p, NoStmt, semi.err)
            ELSE SR(semi.p, VarS(name.Lexeme, init.expr, id), NoErr)
        withInit(name, id, init) ==
            IF init.err # NoErr THEN SR(init.p, NoStmt, init.err)
            ELSE build(name, id, init,
                       Parser_consume(init.p, "Semicolon",
                                      "Expect ';' after variable declaration."))
        initializer(name, p1) ==
            IF Parser_match(p1, {"Equal"})
            THEN withInit(name, p1.Current, method("expression", Parser_advance(p1)))
            ELSE withInit(name, p1.Current, PR(p1, NoExpr, NoErr))
        named(name) ==
            IF name.err # NoErr THEN SR(name.p, NoStmt, name.err)
            ELSE initializer(Parser_previous(name.p), name.p)
    IN  named(Parser_consume(p, "Identifier", "Expect variable name."))

\* the statements that are an expression and a semicolon
expressionThenSemicolon(p, kind, message) ==
    LET build(value, semi) ==
            IF semi.err # NoErr THEN SR(semi.p, NoStmt, semi.err)
            ELSE SR(semi.p, IF kind = "print" THEN PrintS(value.expr) ELSE ExprS(value.expr),
                    NoErr)
        withValue(value) ==
            IF value.err # NoErr THEN SR(value.p, NoStmt, value.err)
            ELSE build(value, Parser_consume(value.p, "Semicolon", message))
    IN  withValue(method("expression", p))

printStatement(p) == expressionThenSemicolon(p, "print", "Expect ';' after value.")

expressionStatement(p) ==
    expressionThenSemicolon(p, "expression", "Expect ';' after expression.")

\* the statements that are a keyword and a semicolon
keywordStatement(p, stmt, message) ==
    LET build(semi) ==
            IF semi.err # NoErr THEN SR(semi.p, NoStmt, semi.err)
            ELSE SR(semi.p, stmt, NoErr)
    IN  build(Parser_consume(p, "Semicolon", message))

breakStatement(p) == keywordStatement(p, BreakS, "Expect ';' after break.")

continueStatement(p) == keywordStatement(p, ContinueS, "Expect ';' after continue.")

\* `(` condition `)` of if and while
condition(p, open, close) ==
    LET closed(c, paren) ==
            IF paren.err # NoErr THEN PR(paren.p, NoExpr, paren.err) ELSE PR(paren.p, c.expr, NoErr)
        withCondition(c) ==
            IF c.err # NoErr THEN c
            ELSE closed(c, Parser_consume(c.p, "RightParen", close))
        opened(paren) ==
            IF paren.err # NoErr THEN PR(paren.p, NoExpr, paren.err)
            ELSE withCondition(method("expression", paren.p))
    IN  opened(Parser_consume(p, "LeftParen", open))

whileStatement(p) ==
    LET build(c, body) ==
            IF body.err # NoErr THEN body
            ELSE SR(body.p, WhileS(c.expr, body.stmt), NoErr)
        withCondition(c) ==
            IF c.err # NoErr THEN SR(c.p, NoStmt, c.err)
            ELSE build(c, method("statement", c.p))
    IN  withCondition(condition(p, "Expect '(' after 'while'.",
                                "Expect ')' after while condition."))

ifStatement(p) ==
    LET build(c, thenBranch, elseBranch) ==
            IF elseBranch.err # NoErr THEN elseBranch
            ELSE SR(elseBranch.p, IfS(c.expr, thenBranch.stmt, elseBranch.stmt), NoErr)
        withThen(c, thenBranch) ==
            IF thenBranch.err # NoErr THEN thenBranch
            ELSE IF Parser_match(thenBranch.p, {"Else"})
            THEN build(c, thenBranch, method("statement", Parser_advance(thenBranch.p)))
            ELSE build(c, thenBranch, SR(thenBranch.p, NoStmt, NoErr))
        withCondition(c) ==
            IF c.err # NoErr THEN SR(c.p, NoStmt, c.err)
            ELSE withThen(c, method("statement", c.p))
    IN  withCondition(condition(p, "Expect '(' after 'if'.", "Expect ')' after if condition."))

\* the desugared while loop of forStatement
forLoop(initializer, c, increment, body) ==
    LET withIncrement == IF increment = NoExpr THEN body
                         ELSE Block(<<body, ExprS(increment)>>)
        loop == WhileS(IF c = NoExpr THEN Literal(NewBoolValue(TRUE)) ELSE c, withIncrement)
    IN  IF initializer # NoStmt THEN Block(<<initializer, loop>>) ELSE loop

forStatement(p) ==
    LET build(initializer, c, increment, body) ==
            IF body.err # NoErr THEN body
            ELSE SR(body.p, forLoop(initializer.stmt, c.expr, increment.expr, body.stmt), NoErr)
        closed(initializer, c, increment, paren) ==
            IF paren.err # NoErr THEN SR(paren.p, NoStmt, paren.err)
            ELSE build(initializer, c, increment, method("statement", paren.p))
        withIncrement(initializer, c, increment) ==
            IF increment.err # NoErr THEN SR(increment.p, NoStmt, increment.err)
            ELSE closed(initializer, c, increment,
                        Parser_consume(increment.p, "RightParen",
                                       "Expect ')' after for clauses."))
        afterCondition(initializer, c, semi) ==
            IF semi.err # NoErr THEN SR(semi.p, NoStmt, semi.err)
            ELSE IF ~Parser_check(semi.p, "RightParen")
            THEN withIncrement(initializer, c, method("expression", semi.p))
            ELSE withIncrement(initializer, c, PR(semi.p, NoExpr, NoErr))
        withCondition(initializer, c) ==
            IF c.err # NoErr THEN SR(c.p, NoStmt, c.err)
            ELSE afterCondition(initializer, c,
                                Parser_consume(c.p, "Semicolon",
                                               "Expect ';' after loop condition."))
        withInitializer(initializer) ==
            IF initializer.err # NoErr THEN initializer
            ELSE IF ~Parser_check(initializer.p, "Semicolon")
            THEN withCondition(initializer, method("expression", initializer.p))
            ELSE withCondition(initializer, PR(initializer.p, NoExpr, NoErr))
        opened(paren) ==
            IF paren.err # NoErr THEN SR(paren.p, NoStmt, paren.err)
            ELSE IF Parser_match(paren.p, {"Var"})
            THEN withInitializer(method("variableDeclaration", Parser_advance(paren.p)))
            ELSE IF ~Parser_match(paren.p, {"Semicolon"})
            THEN withInitializer(method("expressionStatement", paren.p))
            ELSE withInitializer(SR(Parser_advance(paren.p), NoStmt, NoErr))
    IN  opened(Parser_consume(p, "LeftParen", "Expect '(' after 'for'."))

\* the loop of block
RECURSIVE blockLoop(_, _)
blockLoop(p, stmts) ==
    IF Parser_check(p, "RightBrace") \/ Parser_isAtEnd(p) THEN [p |-> p, stmts |-> stmts]
    ELSE LET next(d) == blockLoop(d.p, Append(stmts, d.stmt))
         IN  next(method("declaration", p))

\* after match(LeftBrace): block and the BlockStatement built from it
block(p) ==
    LET closed(body, brace) ==
            IF brace.err # NoErr THEN SR(brace.p, NoStmt, brace.err)
            ELSE SR(brace.p, Block(body.stmts), NoErr)
        close(body) == closed(body, Parser_consume(body.p, "RightBrace",
                                                   "Expect '}' after block."))
    IN  close(blockLoop(p, <<>>))

statement(p) ==
    CASE Parser_match(p, {"For"}) -> forStatement(Parser_advance(p))
      [] Parser_match(p, {"If"}) -> ifStatement(Parser_advance(p))
      [] Parser_match(p, {"Print"}) -> printStatement(Parser_advance(p))
      [] Parser_match(p, {"While"}) -> whileStatement(Parser_advance(p))
      [] Parser_match(p, {"Break"}) -> breakStatement(Parser_advance(p))
      [] Parser_match(p, {"Continue"}) -> continueStatement(Parser_advance(p))
      [] Parser_match(p, {"LeftBrace"}) -> block(Parser_advance(p))
      [] OTHER -> method("expressionStatement", p)

declaration(p) ==
    LET recover(r, q) ==
            SR([q EXCEPT !.syncs = Append(@, [start |-> p.Current, at |-> r.p.Current,
                                              to |-> q.Current])],
               NoStmt, NoErr)
        done(r) == IF r.err # NoErr THEN recover(r, synchronize(r.p)) ELSE r
    IN  IF Parser_match(p, {"Var"}) THEN done(method("variableDeclaration", Parser_advance(p)))
        ELSE done(method("statement", p))

method(name, p) ==
    CASE name = "expression" -> expression(p)
      [] name = "variableDeclaration" -> variableDeclaration(p)
      [] name = "expressionStatement" -> expressionStatement(p)
      [] name = "statement" -> statement(p)
      [] name = "declaration" -> declaration(p)

(* ExpressionPrinter                                                       *)

LiteralValue_String(v) ==
    CASE v.t = "nil" -> "nil"
      [] v.t = "number" -> v.text
      [] v.t = "string" -> v.s
      [] v.t = "bool" -> IF v.b THEN "true" ELSE "false"

RECURSIVE ExpressionPrinter_Print(_)
RECURSIVE parenthesizeLoop(_)

\* the loop of parenthesize
parenthesizeLoop(expressions) ==
    IF expressions = <<>> THEN ""
    ELSE " " \o ExpressionPrinter_Print(Head(expressions))
             \o parenthesizeLoop(Tail(expressions))

parenthesize(name, expressions) == "(" \o name \o parenthesizeLoop(expressions) \o ")"

ExpressionPrinter_Print(e) ==
    CASE e.k = "binary" -> parenthesize(e.op, <<e.left, e.right>>)
      [] e.k = "grouping" -> parenthesize("group", <<e.e>>)
      [] e.k = "literal" -> LiteralValue_String(e.v)
      [] e.k = "unary" -> parenthesize(e.op, <<e.right>>)

---------------------------------------------------------------------------
(* The driver: runFile, run and Interpreter.Interpret, with the reporting  *)
(* flags.  pc is the driver's position: "scan", "parse", "resolve",        *)
(* "interpret" (inside the loop of Interpret), "looping" (a while loop    *)
(* has run MaxIterations times and is still running), "ran" (run has       *)
(* returned), "exit" (the process has ended).                              *)

DefineNativeFunctions(envs, environment) ==
    Environment_Define(envs, environment, "clock", NewFunctionValue(ClockFunction))

NewInterpreter(now) ==
    [envs |-> DefineNativeFunctions(<<NewEnvironment>>, 1),
     fns |-> <<>>, classes |-> <<>>, insts |-> <<>>,
     Globals |-> 1, Environment |-> 1, Locals |-> EmptyMap,
     out |-> <<>>, now |-> now,
     depth |-> 0, callee |-> 0, calls |-> <<>>, loops |-> <<>>, uses |-> <<>>,
     thises |-> <<>>, supers |-> <<>>, origin |-> EmptyMap, blocks |-> <<>>, hops |-> <<>>,
     checks |-> <<>>, logicals |-> <<>>, frames |-> <<>>,
     iterations |-> 0]

\* report and runtimeError print with fmt.Printf, which writes to os.Stdout
Diagnostic(kind, message) == [kind |-> kind, message |-> message, stream |-> "stdout"]

RECURSIVE Diagnostics(_, _)
Diagnostics(kind, messages) ==
    IF messages = <<>> THEN <<>>
    ELSE <<Diagnostic(kind, Head(messages))>> \o Diagnostics(kind, Tail(messages))

\* run returns early when a static error was reported
returnIfHadError_m(flag) == FALSE

returnIfHadError(flag) == flag

\* Interpret leaves its loop at the first error
interpretReturns_m(err) == FALSE

interpretReturns(err) == err.k # "none"

\* the exit code runFile ends the process with
runFileExit(flag, runtimeFlag) ==
    IF flag THEN 65 ELSE IF runtimeFlag THEN 70 ELSE 0

\* a panic of the Go runtime ends the process with status 2
PanicExit == 2

Init ==
    /\ program \in 1..Len(Sources)
    /\ pc = "scan"
    /\ statements = <<>>
    /\ current = 0
    /\ \E now \in ClockReadings : interp = NewInterpreter(now)
    /\ hadError = FALSE
    /\ hadRuntimeError = FALSE
    /\ exitCode = -1
    /\ diag = <<>>
    /\ chain = <<NewEnvironment>>
    /\ lastOp = [op |-> "none"]
    /\ stored = EmptyMap
    /\ scanner = NewScanner(<<>>)
    /\ lines = <<>>
    /\ parser = NewParser(<<>>)

\* scanner.ScanTokens(): the source either holds a character or literal the
\* scanner reports, or it does not; the token list is produced either way
ScanTokens ==
    /\ pc = "scan"
    /\ \E bad \in BOOLEAN :
          /\ hadError' = IF bad THEN report(hadError) ELSE hadError
          /\ diag' = IF bad THEN Append(diag, Diagnostic("scan", "Unexpected character"))
                     ELSE diag
    /\ pc' = "parse"
    /\ UNCHANGED <<program, statements, current, interp, hadRuntimeError, exitCode>>
    /\ UNCHANGED unitVars

\* parser.Parse(): either every declaration parses, or declaration number bad
\* is dropped by error recovery and nil stands in its place
Parse ==
    /\ pc = "parse"
    /\ \E bad \in 0..Len(Sources[program]) :
          /\ statements' = [i \in 1..Len(Sources[program]) |->
                               IF i = bad THEN NoStmt ELSE Sources[program][i]]
          /\ hadError' = IF bad # 0 THEN report(hadError) ELSE hadError
          /\ diag' = IF bad # 0 THEN Append(diag, Diagnostic("parse", "Expect expression."))
                     ELSE diag
    /\ pc' = IF returnIfHadError(hadError') THEN "ran" ELSE "resolve"
    /\ UNCHANGED <<program, current, interp, hadRuntimeError, exitCode>>
    /\ UNCHANGED unitVars

\* resolver.Resolve(statements)
Resolve ==
    /\ pc = "resolve"
    /\ \E rs \in {resolveStatements([NewResolver(interp.Locals) EXCEPT !.hadError = hadError],
                                      statements)} :
           /\ interp' = [interp EXCEPT !.Locals = rs.Locals]
           /\ hadError' = rs.hadError
           /\ diag' = diag \o Diagnostics("resolve", rs.reports)
           /\ IF rs.panicked
              THEN pc' = "exit" /\ exitCode' = PanicExit /\ current' = current
              ELSE /\ pc' = IF returnIfHadError(rs.hadError) THEN "ran" ELSE "interpret"
                   /\ current' = 1
                   /\ exitCode' = exitCode
    /\ UNCHANGED <<program, statements, hadRuntimeError>>
    /\ UNCHANGED unitVars

\* one round of the loop of Interpret: execute the next statement; on an
\* error runtimeError(err) is called and Interpret returns
ExecuteStatement ==
    /\ pc = "interpret"
    /\ current <= Len(statements)
    /\ \E r \in {execute(statements[current], interp)} :
           /\ interp' = r.st
           /\ lastOp' = [op |-> "interpret",
                         value |-> IF r.err.k # "none" THEN NoValue ELSE r.v]
           /\ IF r.err.k = "panic"
              THEN /\ pc' = "exit"
                   /\ exitCode' = PanicExit
                   /\ UNCHANGED <<current, hadRuntimeError, diag>>
              ELSE IF r.err = Diverged
              THEN /\ pc' = "looping"
                   /\ UNCHANGED <<current, hadRuntimeError, diag, exitCode>>
              ELSE /\ exitCode' = exitCode
                   /\ IF r.err.k # "none"
                      THEN /\ diag' = Append(diag, Diagnostic("runtime", r.err.msg))
                           /\ hadRuntimeError' = TRUE
                      ELSE UNCHANGED <<diag, hadRuntimeError>>
                   /\ IF interpretReturns(r.err)
                      THEN pc' = "ran" /\ current' = current
                      ELSE pc' = "interpret" /\ current' = current + 1
    /\ UNCHANGED <<program, statements, hadError>>
    /\ UNCHANGED <<chain, stored, scanner, lines, parser>>

\* the loop of Interpret is over: Interpret and run return
InterpretReturns ==
    /\ pc = "interpret"
    /\ current > Len(statements)
    /\ pc' = "ran"
    /\ UNCHANGED <<program, statements, current, interp, hadError, hadRuntimeError,
                   exitCode, diag>>
    /\ UNCHANGED unitVars

\* runFile after run: os.Exit(65), os.Exit(70), or return to main, which exits 0
RunFileExit ==
    /\ pc = "ran"
    /\ exitCode' = runFileExit(hadError, hadRuntimeError)
    /\ pc' = "exit"
    /\ UNCHANGED <<program, statements, current, interp, hadError, hadRuntimeError, diag>>
    /\ UNCHANGED unitVars

Next ==
    \/ ScanTokens
    \/ Parse
    \/ Resolve
    \/ ExecuteStatement
    \/ InterpretReturns
    \/ RunFileExit

Spec == Init /\ [][Next]_vars

---------------------------------------------------------------------------
(* The prompt: runPrompt runs every line it reads with run against one     *)
(* interpreter.  pc is "prompt" where runPrompt reads the next line; the    *)
(* stages of run are those of the driver.                                  *)

MaxLines == 3

\* the lines typed at the prompt
PromptLines == {SrcDefineA, SrcPrintA, SrcIncrementA, SrcOwnInitializer}

\* runPrompt after run: hadError = false, hadRuntimeError = false
runPromptFlag_m(flag) == flag

runPromptFlag(flag) == FALSE

InitPrompt ==
    /\ program = 1
    /\ pc = "prompt"
    /\ statements = <<>>
    /\ current = 0
    /\ interp = NewInterpreter(0)
    /\ hadError = FALSE
    /\ hadRuntimeError = FALSE
    /\ exitCode = -1
    /\ diag = <<>>
    /\ chain = <<NewEnvironment>>
    /\ lastOp = [op |-> "none"]
    /\ stored = EmptyMap
    /\ scanner = NewScanner(<<>>)
    /\ lines = <<>>
    /\ parser = NewParser(<<>>)

\* scanner.Scan() returns a line and run is called on it
PromptReadLine ==
    /\ pc = "prompt"
    /\ Len(lines) < MaxLines
    /\ program' \in {i \in 1..Len(Sources) : Sources[i] \in PromptLines}
    /\ pc' = "scan"
    /\ statements' = <<>>
    /\ current' = 0
    /\ lastOp' = [op |-> "none"]
    /\ UNCHANGED <<interp, hadError, hadRuntimeError, exitCode, diag>>
    /\ UNCHANGED <<chain, stored, scanner, lines, parser>>

\* run returns: with printExpressions set it prints the value Interpret
\* returned when there is one; runPrompt then clears both flags
PromptLineDone ==
    /\ pc = "ran"
    /\ interp' = IF lastOp.op = "interpret" /\ lastOp.value # NoValue
                 THEN [interp EXCEPT !.out = Append(@, String(interp, lastOp.value))]
                 ELSE interp
    /\ hadError' = runPromptFlag(hadError)
    /\ hadRuntimeError' = runPromptFlag(hadRuntimeError)
    /\ lines' = Append(lines, [source |-> Sources[program], diags |-> Len(diag)])
    /\ pc' = "prompt"
    /\ UNCHANGED <<program, statements, current, exitCode, diag>>
    /\ UNCHANGED <<chain, lastOp, stored, scanner, parser>>

\* scanner.Scan() returns false at the end of the input: runPrompt returns
\* nil and main ends
PromptEOF ==
    /\ pc = "prompt"
    /\ pc' = "exit"
    /\ exitCode' = 0
    /\ UNCHANGED <<program, statements, current, interp, hadError, hadRuntimeError, diag>>
    /\ UNCHANGED unitVars

NextPrompt ==
    \/ PromptReadLine
    \/ ScanTokens
    \/ Parse
    \/ Resolve
    \/ ExecuteStatement
    \/ InterpretReturns
    \/ PromptLineDone
    \/ PromptEOF

SpecPrompt == InitPrompt /\ [][NextPrompt]_vars

---------------------------------------------------------------------------
(* Environment on its own: the operations of golox/environment.go applied  *)
(* in any order to a heap of at most MaxEnvs environments.                 *)

MaxEnvs == 3

Names == {"a", "b"}

Numbers == {NewNumberValue(1), NewNumberValue(2)}

\* history: the environments from e outwards, e first
RECURSIVE Enclosers(_, _)
Enclosers(envs, e) ==
    IF e = 0 THEN <<>> ELSE <<e>> \o Enclosers(envs, envs[e].Enclosing)

\* history: the innermost environment, from e outwards, that a value was
\* stored in under name; 0 when there is none
Binder(envs, history, e, name) ==
    LET path == Enclosers(envs, e)
        hits == {i \in 1..Len(path) : <<path[i], name>> \in DOMAIN history}
    IN  IF hits = {} THEN 0 ELSE path[CHOOSE i \in hits : \A j \in hits : i <= j]

InitEnv ==
    /\ program = 1
    /\ pc = "env"
    /\ statements = <<>>
    /\ current = 0
    /\ interp = NewInterpreter(0)
    /\ hadError = FALSE
    /\ hadRuntimeError = FALSE
    /\ exitCode = -1
    /\ diag = <<>>
    /\ chain = <<NewEnvironment>>
    /\ lastOp = [op |-> "none"]
    /\ stored = EmptyMap
    /\ scanner = NewScanner(<<>>)
    /\ lines = <<>>
    /\ parser = NewParser(<<>>)

\* NewEnvironmentScope(enclosing)
EnvNewScope ==
    /\ Len(chain) < MaxEnvs
    /\ \E e \in 1..Len(chain) :
          /\ chain' = NewEnvironmentScope(chain, e)
          /\ lastOp' = [op |-> "scope"]
          /\ stored' = stored
    /\ UNCHANGED <<driverVars, scanner, lines, parser>>

\* e.Define(name, value)
EnvDefine ==
    /\ \E e \in 1..Len(chain), name \in Names, value \in Numbers :
          /\ chain' = Environment_Define(chain, e, name, value)
          /\ lastOp' = [op |-> "define"]
          /\ stored' = Put(stored, <<e, name>>, value)
    /\ UNCHANGED <<driverVars, scanner, lines, parser>>

\* e.Assign(name, value)
EnvAssign ==
    /\ \E e \in 1..Len(chain), name \in Names, value \in Numbers :
          \E r \in {Environment_Assign(chain, e, name, value)} :
              /\ chain' = r.envs
              /\ lastOp' = [op |-> "assign", e |-> e, name |-> name, err |-> r.err]
              /\ stored' = IF Binder(chain, stored, e, name) # 0
                            THEN Put(stored, <<Binder(chain, stored, e, name), name>>, value)
                            ELSE stored
    /\ UNCHANGED <<driverVars, scanner, lines, parser>>

\* e.Get(name)
EnvGet ==
    /\ \E e \in 1..Len(chain), name \in Names :
          \E r \in {Environment_Get(chain, e, name)} :
              /\ chain' = chain
              /\ lastOp' = [op |-> "get", e |-> e, name |-> name, err |-> r.err]
              /\ stored' = stored
    /\ UNCHANGED <<driverVars, scanner, lines, parser>>

NextEnv ==
    \/ EnvNewScope
    \/ EnvDefine
    \/ EnvAssign
    \/ EnvGet

SpecEnv == InitEnv /\ [][NextEnv]_vars

---------------------------------------------------------------------------
(* AssignAt and GetAt on their own: one call on any environment of any     *)
(* chain of at most MaxChain environments, each enclosing the one before   *)
(* it, with any bindings of Names to Numbers.  pc is "at" before the call  *)
(* and "done" after it.                                                    *)

MaxChain == 3

Bindings == UNION {[D -> Numbers] : D \in SUBSET Names}

Chains(n) ==
    {[i \in 1..n |-> [Values |-> values[i], Enclosing |-> i - 1]] :
        values \in [1..n -> Bindings]}

InitAt ==
    /\ program = 1
    /\ pc = "at"
    /\ statements = <<>>
    /\ current = 0
    /\ interp = NewInterpreter(0)
    /\ hadError = FALSE
    /\ hadRuntimeError = FALSE
    /\ exitCode = -1
    /\ diag = <<>>
    /\ chain \in UNION {Chains(n) : n \in 1..MaxChain}
    /\ lastOp = [op |-> "none"]
    /\ stored = EmptyMap
    /\ scanner = NewScanner(<<>>)
    /\ lines = <<>>
    /\ parser = NewParser(<<>>)

\* e.AssignAt(distance, name, value); a distance beyond the end of the chain
\* dereferences nil
EnvAssignAt ==
    /\ pc = "at"
    /\ \E e \in 1..Len(chain), distance \in 0..MaxChain, name \in Names, value \in Numbers :
          \E r \in {Environment_AssignAt(chain, e, distance, name, value)} :
              /\ chain' = r.envs
              /\ lastOp' = [op |-> "assignAt", e |-> e, distance |-> distance,
                            name |-> name, v |-> value, before |-> chain, err |-> r.err]
    /\ pc' = "done"
    /\ UNCHANGED <<program, statements, current, interp, hadError, hadRuntimeError,
                   exitCode, diag, stored, scanner, lines, parser>>

\* e.GetAt(distance, name)
EnvGetAt ==
    /\ pc = "at"
    /\ \E e \in 1..Len(chain), distance \in 0..MaxChain, name \in Names :
          \E r \in {Environment_GetAt(chain, e, distance, name)} :
              /\ chain' = chain
              /\ lastOp' = [op |-> "getAt", e |-> e, distance |-> distance,
                            name |-> name, v |-> r.v, before |-> chain, err |-> r.err]
    /\ pc' = "done"
    /\ UNCHANGED <<program, statements, current, interp, hadError, hadRuntimeError,
                   exitCode, diag, stored, scanner, lines, parser>>

NextAt ==
    \/ EnvAssignAt
    \/ EnvGetAt

SpecAt == InitAt /\ [][NextAt]_vars

---------------------------------------------------------------------------
(* The scanner on its own: ScanTokens on every source of at most           *)
(* MaxSourceLen runes over Alphabet, and on a few longer sources.  pc is   *)
(* "scanToken" inside the loop of ScanTokens and "scanned" after it.       *)

MaxSourceLen == 5

Alphabet == {"\"", "\n", "/", "*", "a", "@", NUL}

\* the source of TestSingleTokens, without ? and :
SrcTokens ==
    <<"(", " ", ")", "{", " ", "}", " ", ",", " ", ".", " ", "-", " ", "+",
      " ", ";", " ", "/", " ", "*">>

\* one- and two-character operators
SrcOperators ==
    <<"!", " ", "!", "=", " ", "=", " ", "=", "=", " ", "<", " ", "<", "=",
      " ", ">", " ", ">", "=">>

\* a declaration and a print statement on two lines
SrcDeclaration ==
    <<"v", "a", "r", " ", "x", "_", "1", " ", "=", " ", "1", "2", ".", "5",
      ";", "\n", "p", "r", "i", "n", "t", " ", "\"", "s", "\"", " ", "+",
      " ", "x", "_", "1", ".", "y", ";", " ", "/", "/", " ", "e", "n", "d">>

ScannerSources ==
    UNION {[1..n -> Alphabet] : n \in 0..MaxSourceLen}
        \cup {SrcTokens, SrcOperators, SrcDeclaration}

InitScan ==
    /\ program = 1
    /\ pc = "scanToken"
    /\ statements = <<>>
    /\ current = 0
    /\ interp = NewInterpreter(0)
    /\ hadError = FALSE
    /\ hadRuntimeError = FALSE
    /\ exitCode = -1
    /\ diag = <<>>
    /\ chain = <<NewEnvironment>>
    /\ lastOp = [op |-> "none"]
    /\ stored = EmptyMap
    /\ \E source \in ScannerSources : scanner = reset(NewScanner(source))
    /\ lines = <<>>
    /\ parser = NewParser(<<>>)

\* one round of the loop of ScanTokens; the round in which scanToken
\* returns false leaves the loop and appends the EOF token
ScanTokensRound ==
    /\ pc = "scanToken"
    /\ \E r \in {scanRound(scanner)} :
           /\ scanner' = IF r.more THEN r.s ELSE appendEOF(r.s)
           /\ pc' = IF r.more THEN "scanToken" ELSE "scanned"
           /\ hadError' = r.s.hadError
           /\ diag' = r.s.reports
    /\ UNCHANGED <<program, statements, current, interp, hadRuntimeError, exitCode>>
    /\ UNCHANGED <<envVars, lines, parser>>

NextScan == ScanTokensRound

SpecScan == InitScan /\ [][NextScan]_vars

\* the number of newline runes among runes
RECURSIVE Newlines(_)
Newlines(runes) ==
    IF runes = <<>> THEN 0
    ELSE (IF Head(runes) = "\n" THEN 1 ELSE 0) + Newlines(Tail(runes))

\* the rune the next round of ScanTokens starts with
FirstRune == peek(scanner)

\* the step reported a scan error
Reported == Len(diag') = Len(diag) + 1

---------------------------------------------------------------------------
(* The operator + on its own: VisitBinaryExpression on two literal         *)
(* operands, in an interpreter that holds the native functions only.       *)

Operands ==
    {NewNilValue, NewBoolValue(TRUE), NewBoolValue(FALSE),
     NewNumberValue(0), NewNumberValue(1), NewNumberValue(2), NewNumberValue(-1),
     NewStringValue(""), NewStringValue("a"), NewStringValue("b"), NewStringValue("1"),
     NewFunctionValue(ClockFunction)}

InitPlus ==
    /\ program = 1
    /\ pc = "plus"
    /\ statements = <<>>
    /\ current = 0
    /\ interp = NewInterpreter(0)
    /\ hadError = FALSE
    /\ hadRuntimeError = FALSE
    /\ exitCode = -1
    /\ diag = <<>>
    /\ chain = <<NewEnvironment>>
    /\ lastOp = [op |-> "none"]
    /\ stored = EmptyMap
    /\ scanner = NewScanner(<<>>)
    /\ lines = <<>>
    /\ parser = NewParser(<<>>)

\* evaluate(left + right)
EvaluatePlus ==
    /\ \E left \in Operands, right \in Operands :
          \E r \in {evaluate(Binary(Literal(left), "+", Literal(right)), interp)} :
              lastOp' = [op |-> "plus", left |-> left, right |-> right,
                         v |-> r.v, err |-> r.err]
    /\ UNCHANGED <<driverVars, chain, stored, scanner, lines, parser>>

NextPlus == EvaluatePlus

SpecPlus == InitPlus /\ [][NextPlus]_vars

---------------------------------------------------------------------------
(* The expression unit: NewParser(tokens) and one call of expression on a  *)
(* token stream that ends with EOF, as ScanTokens leaves it.               *)

MaxTokens == 5

Token(tokenType, text, literal) ==
    [Type |-> tokenType, Lexeme |-> text, Literal |-> literal, Line |-> 1]

EOFToken == [Type |-> "EOF", Lexeme |-> "", Literal |-> "", Line |-> 1]

TokenAlphabet ==
    {Token("Number", "1", "1"), Token("Minus", "-", ""), Token("Star", "*", ""),
     Token("Less", "<", ""), Token("EqualEqual", "==", "")}

\* -123 * (45.67)
TokensTest ==
    <<Token("Minus", "-", ""), Token("Number", "123", "123"), Token("Star", "*", ""),
      Token("LeftParen", "(", ""), Token("Number", "45.67", "45.67"),
      Token("RightParen", ")", "")>>

\* 1 / 2 != !3 >= 4 > 5 <= 6
TokensOperators ==
    <<Token("Number", "1", "1"), Token("Slash", "/", ""), Token("Number", "2", "2"),
      Token("BangEqual", "!=", ""), Token("Bang", "!", ""), Token("Number", "3", "3"),
      Token("GreaterEqual", ">=", ""), Token("Number", "4", "4"),
      Token("Greater", ">", ""), Token("Number", "5", "5"),
      Token("LessEqual", "<=", ""), Token("Number", "6", "6")>>

\* true == "s" != nil + false
TokensLiterals ==
    <<Token("True", "true", ""), Token("EqualEqual", "==", ""),
      Token("String", "\"s\"", "s"), Token("BangEqual", "!=", ""),
      Token("Nil", "nil", ""), Token("Plus", "+", ""), Token("False", "false", "")>>

\* a = b = 1, 2
TokensAssign ==
    <<Token("Identifier", "a", ""), Token("Equal", "=", ""),
      Token("Identifier", "b", ""), Token("Equal", "=", ""),
      Token("Number", "1", "1"), Token("Comma", ",", ""), Token("Number", "2", "2")>>

\* a or b and c ? 1 : 2
TokensLogical ==
    <<Token("Identifier", "a", ""), Token("Or", "or", ""), Token("Identifier", "b", ""),
      Token("And", "and", ""), Token("Identifier", "c", ""), Token("Question", "?", ""),
      Token("Number", "1", "1"), Token("Colon", ":", ""), Token("Number", "2", "2")>>

\* 1 = 2
TokensInvalidTarget ==
    <<Token("Number", "1", "1"), Token("Equal", "=", ""), Token("Number", "2", "2")>>

\* ((1 - 1)) * 1
TokensNested ==
    <<Token("LeftParen", "(", ""), Token("LeftParen", "(", ""), Token("Number", "1", "1"),
      Token("Minus", "-", ""), Token("Number", "1", "1"), Token("RightParen", ")", ""),
      Token("RightParen", ")", ""), Token("Star", "*", ""), Token("Number", "1", "1")>>

\* (1
TokensUnclosed == <<Token("LeftParen", "(", ""), Token("Number", "1", "1")>>

RECURSIVE TokensOfLength(_)
TokensOfLength(n) ==
    IF n = 0 THEN {<<>>}
    ELSE {Append(tokens, token) : tokens \in TokensOfLength(n - 1), token \in TokenAlphabet}

\* the streams with one pair of parentheses
TokensGrouped ==
    UNION {{before \o <<Token("LeftParen", "(", "")>> \o inner
                   \o <<Token("RightParen", ")", "")>> \o after :
               before \in TokensOfLength(i), inner \in TokensOfLength(j),
               after \in TokensOfLength(k)} :
           <<i, j, k>> \in {t \in (0..MaxTokens) \X (0..MaxTokens) \X (0..MaxTokens) :
                                t[1] + t[2] + t[3] + 2 <= MaxTokens}}

TokenStreams ==
    {Append(tokens, EOFToken) :
        tokens \in UNION {TokensOfLength(n) : n \in 0..MaxTokens}
                   \cup TokensGrouped
                   \cup {TokensTest, TokensOperators, TokensLiterals, TokensAssign,
                         TokensLogical, TokensInvalidTarget, TokensNested,
                         TokensUnclosed}}

InitParse ==
    /\ program = 1
    /\ pc = "expression"
    /\ statements = <<>>
    /\ current = 0
    /\ interp = NewInterpreter(0)
    /\ hadError = FALSE
    /\ hadRuntimeError = FALSE
    /\ exitCode = -1
    /\ diag = <<>>
    /\ chain = <<NewEnvironment>>
    /\ lastOp = [op |-> "none"]
    /\ stored = EmptyMap
    /\ \E tokens \in TokenStreams : scanner = [NewScanner(<<>>) EXCEPT !.Tokens = tokens]
    /\ lines = <<>>
    /\ parser = NewParser(<<>>)

\* NewParser(scanner.Tokens).expression()
ParseExpression ==
    /\ pc = "expression"
    /\ \E r \in {expression(NewParser(scanner.Tokens))} :
          /\ lastOp' = [op |-> "expression", expr |-> r.expr, err |-> r.err,
                        Current |-> r.p.Current]
          /\ hadError' = r.p.hadError
          /\ diag' = r.p.reports
    /\ pc' = "parsed"
    /\ UNCHANGED <<program, statements, current, interp, hadRuntimeError, exitCode,
                   chain, stored, scanner, lines, parser>>

NextParse == ParseExpression

SpecParse == InitParse /\ [][NextParse]_vars

---------------------------------------------------------------------------
(* run on a token stream: Parse, one declaration per step, then the        *)
(* resolver and the interpreter of the driver on the statements it         *)
(* returned.  The streams are every stream of at most MaxStatementTokens   *)
(* tokens over StatementAlphabet and a few longer ones.                    *)

MaxStatementTokens == 4

T(tokenType, text) == Token(tokenType, text, "")

Num(n) == Token("Number", ToString(n), ToString(n))

Id(name) == Token("Identifier", name, "")

StatementAlphabet ==
    {T("Print", "print"), Num(1), T("Semicolon", ";"), T("LeftBrace", "{"),
     T("RightBrace", "}"), T("Var", "var"), Id("a"), T("Equal", "=")}

RECURSIVE StatementTokens(_)
StatementTokens(n) ==
    IF n = 0 THEN {<<>>}
    ELSE {Append(tokens, token) : tokens \in StatementTokens(n - 1),
                                  token \in StatementAlphabet}

\* for (var i = 0; i < 3; i = i + 1) { if (i == 1) continue; print i; }
TokensForContinue ==
    <<T("For", "for"), T("LeftParen", "("), T("Var", "var"), Id("i"), T("Equal", "="),
      Num(0), T("Semicolon", ";"), Id("i"), T("Less", "<"), Num(3), T("Semicolon", ";"),
      Id("i"), T("Equal", "="), Id("i"), T("Plus", "+"), Num(1), T("RightParen", ")"),
      T("LeftBrace", "{"), T("If", "if"), T("LeftParen", "("), Id("i"),
      T("EqualEqual", "=="), Num(1), T("RightParen", ")"), T("Continue", "continue"),
      T("Semicolon", ";"), T("Print", "print"), Id("i"), T("Semicolon", ";"),
      T("RightBrace", "}")>>

\* for (var i = 0; i < 3; i = i + 1) print i;
TokensFor ==
    <<T("For", "for"), T("LeftParen", "("), T("Var", "var"), Id("i"), T("Equal", "="),
      Num(0), T("Semicolon", ";"), Id("i"), T("Less", "<"), Num(3), T("Semicolon", ";"),
      Id("i"), T("Equal", "="), Id("i"), T("Plus", "+"), Num(1), T("RightParen", ")"),
      T("Print", "print"), Id("i"), T("Semicolon", ";")>>

\* var i = 0; while (i < 3) { i = i + 1; if (i == 2) continue; print i; }
TokensWhileContinue ==
    <<T("Var", "var"), Id("i"), T("Equal", "="), Num(0), T("Semicolon", ";"),
      T("While", "while"), T("LeftParen", "("), Id("i"), T("Less", "<"), Num(3),
      T("RightParen", ")"), T("LeftBrace", "{"), Id("i"), T("Equal", "="), Id("i"),
      T("Plus", "+"), Num(1), T("Semicolon", ";"), T("If", "if"), T("LeftParen", "("),
      Id("i"), T("EqualEqual", "=="), Num(2), T("RightParen", ")"),
      T("Continue", "continue"), T("Semicolon", ";"), T("Print", "print"), Id("i"),
      T("Semicolon", ";"), T("RightBrace", "}")>>

\* print 1 print 2;
TokensMissingSemicolon ==
    <<T("Print", "print"), Num(1), T("Print", "print"), Num(2), T("Semicolon", ";")>>

\* print + 1; print 2;
TokensBadThenGood ==
    <<T("Print", "print"), T("Plus", "+"), Num(1), T("Semicolon", ";"),
      T("Print", "print"), Num(2), T("Semicolon", ";")>>

\* { print ; print 1; } if (1) print 2; else print 3;
TokensBadInBlock ==
    <<T("LeftBrace", "{"), T("Print", "print"), T("Semicolon", ";"), T("Print", "print"),
      Num(1), T("Semicolon", ";"), T("RightBrace", "}"), T("If", "if"),
      T("LeftParen", "("), Num(1), T("RightParen", ")"), T("Print", "print"), Num(2),
      T("Semicolon", ";"), T("Else", "else"), T("Print", "print"), Num(3),
      T("Semicolon", ";")>>

\* while (true) break; for (;;) { break; }
TokensBreak ==
    <<T("While", "while"), T("LeftParen", "("), T("True", "true"), T("RightParen", ")"),
      T("Break", "break"), T("Semicolon", ";"), T("For", "for"), T("LeftParen", "("),
      T("Semicolon", ";"), T("Semicolon", ";"), T("RightParen", ")"),
      T("LeftBrace", "{"), T("Break", "break"), T("Semicolon", ";"),
      T("RightBrace", "}")>>

SourceStreams ==
    {Append(tokens, EOFToken) :
        tokens \in UNION {StatementTokens(n) : n \in 0..MaxStatementTokens}
                   \cup {TokensForContinue, TokensFor, TokensWhileContinue,
                         TokensMissingSemicolon, TokensBadThenGood, TokensBadInBlock,
                         TokensBreak}}

InitSource ==
    /\ program = 1
    /\ pc = "parse"
    /\ statements = <<>>
    /\ current = 0
    /\ interp = NewInterpreter(0)
    /\ hadError = FALSE
    /\ hadRuntimeError = FALSE
    /\ exitCode = -1
    /\ diag = <<>>
    /\ chain = <<NewEnvironment>>
    /\ lastOp = [op |-> "none"]
    /\ stored = EmptyMap
    /\ \E tokens \in SourceStreams :
          /\ scanner = [NewScanner(<<>>) EXCEPT !.Tokens = tokens]
          /\ parser = NewParser(tokens)
    /\ lines = <<>>

\* one round of the loop of Parse: statements = append(statements, p.declaration())
ParseDeclaration ==
    /\ pc = "parse"
    /\ ~Parser_isAtEnd(parser)
    /\ \E d \in {method("declaration", parser)} :
          /\ parser' = d.p
          /\ statements' = Append(statements, d.stmt)
          /\ hadError' = (hadError \/ d.p.hadError)
          /\ diag' = [i \in 1..Len(d.p.reports) |->
                         Diagnostic("parse", d.p.reports[i].message)]
    /\ pc' = "parse"
    /\ UNCHANGED <<program, current, interp, hadRuntimeError, exitCode, envVars, scanner,
                   lines>>

\* Parse returns at EOF; run returns if an error was reported
ParseReturns ==
    /\ pc = "parse"
    /\ Parser_isAtEnd(parser)
    /\ pc' = IF returnIfHadError(hadError) THEN "ran" ELSE "resolve"
    /\ UNCHANGED <<program, statements, current, interp, hadError, hadRuntimeError,
                   exitCode, diag>>
    /\ UNCHANGED unitVars

NextSource ==
    \/ ParseDeclaration
    \/ ParseReturns
    \/ Resolve
    \/ ExecuteStatement
    \/ InterpretReturns
    \/ RunFileExit

SpecSource == InitSource /\ [][NextSource]_vars

---------------------------------------------------------------------------
(* Properties.  A run is clean when nothing was reported before the        *)
(* interpreter started.                                                    *)

StaticError == \E i \in 1..Len(diag) : diag[i].kind \in {"scan", "parse", "resolve"}

Finished(source) == Sources[program] = source /\ pc = "exit" /\ ~StaticError

UserFunction(v) == v.t = "function" /\ v.id # ClockFunction

\* C1: every completed call of a user-defined function that is not an
\* initializer and whose body ended without executing a return statement
\* evaluated to nil
C1_ImplicitReturnIsNil ==
    \A i \in 1..Len(interp.calls) :
        LET c == interp.calls[i]
        IN  (/\ UserFunction(c.callee)
             /\ ~interp.fns[c.callee.id].IsInitializer
             /\ ~c.ret
             /\ c.bodyErr.k = "none")
            => c.v = NewNilValue

\* C2: when the init method run by a call C(args) raised a runtime error,
\* the call raised that error, so at the end of the run the runtime-error
\* flag is set
C2_InitErrorPropagates ==
    \A i \in 1..Len(interp.calls) :
        LET c == interp.calls[i]
        IN  (c.callee.t = "class" /\ c.bodyErr.k = "runtime")
            => (c.err = c.bodyErr /\ (pc = "exit" => hadRuntimeError))

\* C3: a while loop consumes a break or continue only when it was raised in
\* the function activation the loop runs in (same call depth), never one
\* raised in a function the loop's body called
C3_BreakStaysInFunction ==
    \A i \in 1..Len(interp.loops) :
        interp.loops[i].k \in {"break", "continue"}
            => interp.loops[i].raised = interp.loops[i].consumed

\* C4: once the scanner, the parser or the resolver reported an error, the
\* interpreter's state is the one NewInterpreter made (nothing printed, no
\* environment, function, class or instance touched), whatever the resolver
\* wrote into Locals, and the process exits with code 65
C4_StaticErrorRunsNothing ==
    StaticError =>
        /\ [interp EXCEPT !.Locals = EmptyMap] = NewInterpreter(interp.now)
        /\ ~hadRuntimeError
        /\ pc = "exit" => exitCode = 65

C4_Witness ==
    /\ pc = "exit"
    /\ exitCode = 65
    /\ \E i \in 1..Len(diag) : diag[i].kind = "resolve"
    /\ Len(statements) > 1

\* C5: the runtime-error flag is set exactly when a runtime error was
\* reported; once it is set no step changes the interpreter or moves on to
\* another statement; and the exit code is 65 after a static error, else 70
\* after a runtime error, else 0
C5_RuntimeErrorStops ==
    /\ [](hadRuntimeError <=> \E i \in 1..Len(diag) : diag[i].kind = "runtime")
    /\ [](pc = "exit" =>
            exitCode = IF hadError THEN 65 ELSE IF hadRuntimeError THEN 70 ELSE 0)
    /\ [][hadRuntimeError => (interp' = interp /\ current' = current)]_vars

C5_Witness ==
    /\ pc = "exit"
    /\ exitCode = 70
    /\ hadRuntimeError
    /\ current < Len(statements)
    /\ interp.out # <<>>

\* the declaration of the source text each variable use of SrcShow,
\* SrcEscape and SrcCounter denotes: the innermost declaration of the name
\* that is visible at the use; <<d, 0>> is the var, fun or class statement d,
\* <<d, i>> the i-th parameter of function d
LexicalDecl ==
    (603 :> <<601, 0>>) @@ (604 :> <<602, 0>>) @@ (606 :> <<602, 0>>) @@
    (607 :> <<605, 0>>) @@ (608 :> <<605, 0>>) @@ (609 :> <<602, 0>>) @@
    (610 :> <<601, 0>>) @@
    (705 :> <<703, 0>>) @@ (707 :> <<703, 0>>) @@ (708 :> <<706, 1>>) @@
    (709 :> <<701, 0>>) @@ (710 :> <<704, 0>>) @@ (711 :> <<702, 0>>) @@
    (712 :> <<706, 0>>) @@ (714 :> <<702, 0>>) @@ (715 :> <<701, 0>>) @@
    (716 :> <<713, 0>>) @@ (717 :> <<713, 0>>) @@ (718 :> <<701, 0>>) @@
    (804 :> <<802, 0>>) @@ (805 :> <<802, 0>>) @@ (806 :> <<802, 0>>) @@
    (807 :> <<803, 0>>) @@ (809 :> <<801, 0>>) @@ (811 :> <<801, 0>>) @@
    (812 :> <<808, 0>>) @@ (813 :> <<808, 0>>) @@ (814 :> <<810, 0>>)

\* C6: every read or write of a variable touched the binding made by the
\* declaration the use denotes in the source text, on every call, and the
\* three scoping programs print what lexical scoping prints
C6_LexicalScoping ==
    /\ \A i \in 1..Len(interp.uses) :
          interp.uses[i].use \in DOMAIN LexicalDecl
              => interp.uses[i].decl = LexicalDecl[interp.uses[i].use]
    /\ Finished(SrcShow) => interp.out = <<"global", "global", "local", "global", "global">>
    /\ Finished(SrcEscape) => interp.out = <<"5", "2", "5">>
    /\ Finished(SrcCounter) => interp.out = <<"1", "2", "1">>

C6_Witness ==
    /\ Finished(SrcShow)
    /\ \E i \in 1..Len(interp.uses) :
          interp.uses[i].use = 603 /\ interp.depth = 0
          /\ \E j \in 1..(i - 1) : interp.uses[j].use = 609

\* C7: whenever this is evaluated in the body of a method obtained by a
\* Get, its value is the instance the Get was made on, however the method
\* was stored before it was called
C7_ThisIsBoundAtGet ==
    /\ \A i \in 1..Len(interp.thises) :
          LET t == interp.thises[i]
          IN  (t.callee # 0 /\ interp.fns[t.callee].bound # 0)
              => t.v = NewInstanceValue(interp.fns[t.callee].bound)
    /\ Finished(SrcMethod) => interp.out = <<"true", "true", "true", "true", "4">>

C7_Witness ==
    /\ Finished(SrcMethod)
    /\ Len(interp.insts) = 2
    /\ \E i \in 1..Len(interp.thises) :
          interp.thises[i].callee # 0 /\ interp.thises[i].v = NewInstanceValue(1)

\* C8: a completed call of an initializer evaluates to the instance the
\* initializer is bound to, also when its body ran a bare return, and a
\* completed call of a class evaluates to a new instance of that class
C8_InitializerYieldsThis ==
    \A i \in 1..Len(interp.calls) :
        LET c == interp.calls[i]
        IN  /\ (UserFunction(c.callee) /\ interp.fns[c.callee.id].IsInitializer
                    /\ c.err.k = "none")
               => c.v = NewInstanceValue(interp.fns[c.callee.id].bound)
            /\ (c.callee.t = "class" /\ c.err.k = "none")
               => (c.v.t = "instance" /\ interp.insts[c.v.id].Class = c.callee.id)

C8_Witness ==
    /\ \E i \in 1..Len(interp.calls) :
          LET c == interp.calls[i]
          IN  UserFunction(c.callee) /\ interp.fns[c.callee.id].IsInitializer
              /\ c.ret /\ c.v.t = "instance"
    /\ \E i \in 1..Len(interp.calls) :
          interp.calls[i].callee.t = "class" /\ interp.calls[i].ret

Unbound(envs, e, name) ==
    \A d \in 0..Len(envs) :
        LET a == ancestor(envs, e, d)
        IN  a # 0 => name \notin DOMAIN envs[a].Values

\* C10: an Assign of a name bound nowhere on the chain returns the error
\* "Undefined variable '<name>'.", leaves every environment as it was, and
\* a Get of the name from the same environment fails too
C10_InvalidAssign ==
    [][(lastOp'.op = "assign" /\ Unbound(chain, lastOp'.e, lastOp'.name))
       => /\ lastOp'.err = RuntimeError("Undefined variable '" \o lastOp'.name \o "'.")
          /\ chain' = chain
          /\ Environment_Get(chain', lastOp'.e, lastOp'.name).err.k = "runtime"]_vars

C10_Witness ==
    /\ lastOp.op = "assign"
    /\ lastOp.err.k = "runtime"
    /\ Unbound(chain, lastOp.e, lastOp.name)
    /\ chain[lastOp.e].Enclosing # 0
    /\ \E e \in 1..Len(chain) : chain[e].Values # EmptyMap

\* C11: from every environment, Get of a name returns the value most
\* recently stored under it (by Define or by a successful Assign) in the
\* innermost environment of the chain that binds it, and fails when no
\* environment of the chain binds it; a second Define of a name in the same
\* environment replaces the value
C11_GetReturnsLastStored ==
    \A e \in 1..Len(chain), name \in Names :
        LET b == Binder(chain, stored, e, name)
        IN  IF b # 0
            THEN Environment_Get(chain, e, name) = [v |-> stored[<<b, name>>], err |-> NoErr]
            ELSE Environment_Get(chain, e, name).err.k = "runtime"

C11_Witness ==
    /\ lastOp.op = "get"
    /\ lastOp.err = NoErr
    /\ \E e \in 1..Len(chain), name \in Names :
           /\ chain[e].Enclosing # 0
           /\ <<e, name>> \in DOMAIN stored
           /\ <<chain[e].Enclosing, name>> \in DOMAIN stored
           /\ stored[<<e, name>>] # stored[<<chain[e].Enclosing, name>>]
           /\ Environment_Get(chain, e, name).v = stored[<<e, name>>]

\* C12: when ScanTokens is over, the line counter is 1 plus the number of
\* newline runes of the source, wherever they stand, and every token
\* carries the value the counter had when the token was added
C12_LineCounter ==
    /\ [](pc = "scanned" => scanner.Line = 1 + Newlines(scanner.source))
    /\ [][\A i \in (Len(scanner.Tokens) + 1)..Len(scanner'.Tokens) :
              scanner'.Tokens[i].Line = scanner'.Line]_vars

\* the same for the sources that hold no NUL rune
LineCounterWithoutNUL ==
    (pc = "scanned" /\ \A i \in 1..Len(scanner.source) : scanner.source[i] # NUL)
        => scanner.Line = 1 + Newlines(scanner.source)

\* C13: ScanTokens comes to an end for every source: a round of its loop
\* that does not leave the loop consumes at least one rune, no round reads
\* past the end of the source, and the round that starts at the end leaves
\* the loop.  The token list then holds exactly one EOF token, its last,
\* whether or not errors were reported.  The round that reports an
\* unexpected character consumes that rune only and the loop goes on with
\* the rune after it
C13_ScanTokensEnds ==
    /\ [](scanner.Current <= Len(scanner.source))
    /\ [][/\ pc' = "scanToken" => scanner'.Current > scanner.Current
          /\ isAtEnd(scanner) => pc' = "scanned"]_vars
    /\ [](pc = "scanned" =>
             /\ scanner.Tokens # <<>>
             /\ \A i \in 1..Len(scanner.Tokens) :
                    (scanner.Tokens[i].Type = "EOF") <=> (i = Len(scanner.Tokens)))
    /\ [](pc = "scanToken" => \A i \in 1..Len(scanner.Tokens) : scanner.Tokens[i].Type # "EOF")
    /\ [][(Reported /\ diag'[Len(diag')].message = "Unexpected character '" \o FirstRune \o "'")
            => /\ pc' = "scanToken"
               /\ scanner'.Current = scanner.Current + 1
               /\ scanner'.Tokens = scanner.Tokens]_vars

C13_Witness ==
    /\ pc = "scanned"
    /\ hadError
    /\ scanner.source = <<"@", "a", "\n", "@", "a">>
    /\ Len(scanner.Tokens) = 3
    /\ scanner.Tokens[2].Lexeme = "a"
    /\ scanner.Tokens[2].Line = 2

\* C14: an unterminated string literal or block comment is reported with
\* the number of the line its opening quote or slash-star stands on, which
\* is the value of the line counter when the round that reads it starts
C14_UnterminatedAtOpener ==
    [][(Reported /\ FirstRune \in {"\"", "/"})
         => diag'[Len(diag')].line = scanner.Line]_vars

\* C15: left + right is the sum when both operands are numbers; when at
\* least one is a string it is the string made of the printable form of
\* left followed by the printable form of right; for every other pair of
\* operands it is the runtime error "Operands must be two numbers or two
\* strings."
C15_Plus ==
    lastOp.op = "plus" =>
        IF lastOp.left.t = "number" /\ lastOp.right.t = "number"
        THEN /\ lastOp.err = NoErr
             /\ lastOp.v = NewNumberValue(lastOp.left.n + lastOp.right.n)
        ELSE IF "string" \in {lastOp.left.t, lastOp.right.t}
        THEN /\ lastOp.err = NoErr
             /\ lastOp.v = NewStringValue(String(interp, lastOp.left)
                                             \o String(interp, lastOp.right))
        ELSE lastOp.err = RuntimeError("Operands must be two numbers or two strings.")

C15_Witness ==
    /\ lastOp.op = "plus"
    /\ lastOp.left = NewStringValue("a")
    /\ lastOp.right = NewNumberValue(1)
    /\ lastOp.v = NewStringValue("a1")

\* the expressions an expression is made of, itself included
RECURSIVE SubExpressions(_)
SubExpressions(e) ==
    {e} \cup
    CASE e.k = "grouping" -> SubExpressions(e.e)
      [] e.k = "assign" -> SubExpressions(e.value)
      [] e.k \in {"binary", "logical"} -> SubExpressions(e.left) \cup SubExpressions(e.right)
      [] e.k = "unary" -> SubExpressions(e.right)
      [] e.k = "call" -> SubExpressions(e.callee)
                          \cup UNION {SubExpressions(e.args[i]) : i \in 1..Len(e.args)}
      [] e.k = "get" -> SubExpressions(e.object)
      [] e.k = "set" -> SubExpressions(e.object) \cup SubExpressions(e.value)
      [] OTHER -> {}

\* the var statements of a statement that stand in a local scope
RECURSIVE LocalVarStatements(_, _)
LocalVarStatements(s, local) ==
    CASE s.k = "var" -> IF local THEN {s} ELSE {}
      [] s.k = "block" -> UNION {LocalVarStatements(s.body[i], TRUE) : i \in 1..Len(s.body)}
      [] s.k = "if" -> LocalVarStatements(s.then, local) \cup LocalVarStatements(s.else, local)
      [] s.k = "while" -> LocalVarStatements(s.body, local)
      [] s.k = "function" -> UNION {LocalVarStatements(s.body[i], TRUE) : i \in 1..Len(s.body)}
      [] s.k = "class" -> UNION {LocalVarStatements(s.methods[i], TRUE) : i \in 1..Len(s.methods)}
      [] OTHER -> {}

\* the expressions of a statement that stand outside every class declaration
RECURSIVE ExpressionsOutsideClass(_)
ExpressionsOutsideClass(s) ==
    CASE s.k \in {"expression", "print", "return"} -> SubExpressions(s.e)
      [] s.k = "var" -> SubExpressions(s.init)
      [] s.k = "block" -> UNION {ExpressionsOutsideClass(s.body[i]) : i \in 1..Len(s.body)}
      [] s.k = "if" -> SubExpressions(s.c) \cup ExpressionsOutsideClass(s.then)
                        \cup ExpressionsOutsideClass(s.else)
      [] s.k = "while" -> SubExpressions(s.c) \cup ExpressionsOutsideClass(s.body)
      [] s.k = "function" -> UNION {ExpressionsOutsideClass(s.body[i]) : i \in 1..Len(s.body)}
      [] OTHER -> {}

\* the resolver ran on the statements of a source that scanned and parsed
\* without an error
Resolved ==
    /\ pc \in {"interpret", "ran", "exit"}
    /\ \A i \in 1..Len(diag) : diag[i].kind \notin {"scan", "parse"}

ReadsOwnName(v) ==
    \E e \in SubExpressions(v.init) : e.k = "variable" /\ e.name = v.name

OwnInitializerError ==
    Diagnostic("resolve", "Can't read local variable in its own initializer.")

\* C16: when a var statement in a local scope reads its own name in its
\* initializer, the resolver reports "Can't read local variable in its own
\* initializer." and nothing of the program is executed; the error is
\* reported for no other program: a global declaration, or an initializer
\* that reads another name or a name defined before, resolves cleanly
C16_OwnInitializer ==
    Resolved =>
        LET own == \E i \in 1..Len(statements) :
                      \E v \in LocalVarStatements(statements[i], FALSE) : ReadsOwnName(v)
        IN  /\ own <=> (\E i \in 1..Len(diag) : diag[i] = OwnInitializerError)
            /\ own => /\ hadError
                       /\ pc # "interpret"
                       /\ interp.out = <<>>
                       /\ pc = "exit" => exitCode = 65

C16_Witness ==
    /\ Sources[program] = SrcOwnInitializerInFunction
    /\ pc = "exit"
    /\ exitCode = 65
    /\ diag = <<OwnInitializerError>>

\* C17: a source in which this occurs outside every class declaration is
\* rejected by the resolver: a resolve error is reported, nothing is
\* printed and the process exits with code 65
C17_ThisOutsideClass ==
    (Resolved /\ \E i \in 1..Len(statements) :
                    \E e \in ExpressionsOutsideClass(statements[i]) : e.k = "this")
        => /\ \E i \in 1..Len(diag) : diag[i].kind = "resolve"
           /\ interp.out = <<>>
           /\ pc = "exit" => exitCode = 65

\* C18: every diagnostic, of the scanner, the parser, the resolver and the
\* interpreter, is written to standard error
C18_DiagnosticsOnStderr ==
    \A i \in 1..Len(diag) : diag[i].stream = "stderr"

\* the diagnostics written while line k of the prompt ran
LineDiagnostics(k) ==
    {diag[i] : i \in ((IF k = 1 THEN 0 ELSE lines[k - 1].diags) + 1)..lines[k].diags}

StaticLine(k) == \E d \in LineDiagnostics(k) : d.kind \in {"scan", "parse", "resolve"}

RuntimeLine(k) == \E d \in LineDiagnostics(k) : d.kind = "runtime"

\* the value the global a should hold after the first k lines, 0 when it
\* should not exist: a line with a static error of its own does nothing,
\* var a = 1; defines it, a = a + 1; increments it when it exists
RECURSIVE ExpectedA(_)
ExpectedA(k) ==
    IF k = 0 THEN 0
    ELSE IF StaticLine(k) THEN ExpectedA(k - 1)
    ELSE IF lines[k].source = SrcDefineA THEN 1
    ELSE IF lines[k].source = SrcIncrementA /\ ExpectedA(k - 1) # 0 THEN ExpectedA(k - 1) + 1
    ELSE ExpectedA(k - 1)

\* C19: at the prompt every line runs against the same interpreter.  When
\* the prompt waits for the next line both error flags are clear and the
\* current environment is the global one; the global a holds what the
\* lines run so far made of it, whatever errors the lines between had; and
\* a line fails at run time exactly when it has no static error of its own
\* and reads a while no earlier line has defined it
C19_PromptKeepsGlobals ==
    pc = "prompt" =>
        /\ ~hadError /\ ~hadRuntimeError
        /\ interp.Environment = interp.Globals
        /\ LET a == ExpectedA(Len(lines))
               get == Environment_Get(interp.envs, interp.Globals, "a")
           IN  IF a = 0 THEN get.err.k = "runtime"
               ELSE get = [v |-> NewNumberValue(a), err |-> NoErr]
        /\ \A k \in 1..Len(lines) :
              /\ lines[k].source = SrcOwnInitializer => StaticLine(k)
              /\ RuntimeLine(k) <=> /\ ~StaticLine(k)
                                    /\ lines[k].source \in {SrcPrintA, SrcIncrementA}
                                    /\ ExpectedA(k - 1) = 0

C19_Witness ==
    /\ pc = "prompt"
    /\ Len(lines) = 3
    /\ lines[1].source = SrcDefineA /\ ~StaticLine(1)
    /\ StaticLine(2)
    /\ lines[3].source = SrcIncrementA /\ ~StaticLine(3) /\ ~RuntimeLine(3)
    /\ Environment_Get(interp.envs, interp.Globals, "a").v = NewNumberValue(2)

\* the level of the grammar that makes a node: comma 1, assignment 2,
\* ternary 3, or 4, and 5, equality 6, comparison 7, term 8, factor 9,
\* unary 10, primary 11
Level(e) ==
    CASE e.k = "binary" ->
             (CASE e.op = "," -> 1
                [] e.op \in {"!=", "=="} -> 6
                [] e.op \in {">", ">=", "<", "<="} -> 7
                [] e.op \in {"-", "+"} -> 8
                [] e.op \in {"/", "*"} -> 9)
      [] e.k = "assign" -> 2
      [] e.k = "ternary" -> 3
      [] e.k = "logical" -> IF e.op = "or" THEN 4 ELSE 5
      [] e.k = "unary" -> 10
      [] OTHER -> 11

\* every operand of a node is made by a level that binds at least as tightly
\* (left operand) or more tightly (right operand) than the node's own
RECURSIVE ByPrecedence(_)
ByPrecedence(e) ==
    CASE e.k \in {"binary", "logical"} ->
             /\ Level(e.left) >= Level(e) /\ ByPrecedence(e.left)
             /\ Level(e.right) > Level(e) /\ ByPrecedence(e.right)
      [] e.k = "unary" -> Level(e.right) >= 10 /\ ByPrecedence(e.right)
      [] e.k = "grouping" -> ByPrecedence(e.e)
      [] e.k = "assign" -> Level(e.value) >= 2 /\ ByPrecedence(e.value)
      [] e.k = "ternary" ->
             /\ Level(e.c) >= 4 /\ ByPrecedence(e.c)
             /\ ByPrecedence(e.true)
             /\ Level(e.false) >= 3 /\ ByPrecedence(e.false)
      [] OTHER -> TRUE

\* the lexemes of a tree, read from left to right
RECURSIVE Yield(_)
Yield(e) ==
    CASE e.k \in {"binary", "logical"} -> Yield(e.left) \o <<e.op>> \o Yield(e.right)
      [] e.k = "unary" -> <<e.op>> \o Yield(e.right)
      [] e.k = "grouping" -> <<"(">> \o Yield(e.e) \o <<")">>
      [] e.k = "assign" -> <<e.name, "=">> \o Yield(e.value)
      [] e.k = "ternary" -> Yield(e.c) \o <<"?">> \o Yield(e.true) \o <<":">> \o Yield(e.false)
      [] e.k = "variable" -> <<e.name>>
      [] e.k = "literal" ->
             <<IF e.v.t = "string" THEN "\"" \o e.v.s \o "\"" ELSE LiteralValue_String(e.v)>>

Lexemes(tokens) == [i \in 1..Len(tokens) |-> tokens[i].Lexeme]

InfixTypes ==
    {"Comma", "Equal", "Question", "Or", "And", "BangEqual", "EqualEqual", "Greater",
     "GreaterEqual", "Less", "LessEqual", "Minus", "Plus", "Slash", "Star"}

Parsed == pc = "parsed" /\ lastOp.err = NoErr /\ ~hadError

\* C20: an expression that parses without a report is the tree of the tokens
\* it consumed, read from left to right, in which the operand of a unary
\* operator is a unary or a primary, the operands of * and / are at least
\* unary, those of + and - at least factors, those of a comparison at least
\* terms and those of an equality at least comparisons, the right operand of
\* a binary operator always one level tighter than the operator (so a level
\* associates to the left), and a parenthesised expression a Grouping; the
\* parser stops before a token that is no infix operator; -123 * (45.67)
\* prints as (* (- 123) (group 45.67)).
C20_TreeByPrecedence ==
    Parsed =>
        /\ ByPrecedence(lastOp.expr)
        /\ Yield(lastOp.expr) = Lexemes(SubSeq(scanner.Tokens, 1, lastOp.Current))
        /\ scanner.Tokens[lastOp.Current + 1].Type \notin InfixTypes
        /\ scanner.Tokens = Append(TokensTest, EOFToken) =>
               ExpressionPrinter_Print(lastOp.expr) = "(* (- 123) (group 45.67))"

C20_Witness ==
    /\ Parsed
    /\ scanner.Tokens = Append(TokensTest, EOFToken)
    /\ lastOp.expr = Binary(Unary("-", Literal(NewNumberLiteral("123"))), "*",
                            Grouping(Literal(NewNumberLiteral("45.67"))))
    /\ ExpressionPrinter_Print(lastOp.expr) = "(* (- 123) (group 45.67))"

\* 1 - 1 - 1 is (1 - 1) - 1 and 1 - 1 * 1 is 1 - (1 * 1)
LeftAssociative ==
    \A a, b \in {"-", "*"} :
        (Parsed /\ Lexemes(scanner.Tokens) = <<"1", a, "1", b, "1", "">>) =>
            LET one == Literal(NewNumberLiteral("1"))
            IN  lastOp.expr = IF a = "*" \/ b # "*"
                              THEN Binary(Binary(one, a, one), b, one)
                              ELSE Binary(one, a, Binary(one, b, one))

\* C21: a stage of run starts only when no earlier stage reported an error:
\* the parser, the resolver and the interpreter each start with hadError
\* unset
C21_StagesFailFast ==
    [][(pc \in {"parse", "resolve", "interpret"} /\ pc' # pc) => ~hadError]_vars

\* the resolver and the interpreter start with hadError unset
LaterStagesFailFast ==
    [][(pc \in {"resolve", "interpret"} /\ pc' # pc) => ~hadError]_vars

\* the parser has run on the tokens of a source the scanner reported
ParserRunsAfterScanError ==
    /\ pc = "ran"
    /\ Len(diag) = 2
    /\ diag[1].kind = "scan"
    /\ diag[2].kind = "parse"

\* C22: every executeBlock that has ended (the body of a block statement or
\* of a function call), however it ended, left the current environment it
\* found; between two statements of Interpret and after Interpret the
\* current environment is the globals
C22_BlockRestoresEnvironment ==
    /\ \A i \in 1..Len(interp.blocks) : interp.blocks[i].after = interp.blocks[i].before
    /\ pc \in {"interpret", "ran"} => interp.Environment = interp.Globals

C22_Witness ==
    /\ Sources[program] = SrcBlockExits
    /\ pc = "ran"
    /\ hadRuntimeError
    /\ interp.out = <<"2", "1">>
    /\ {interp.blocks[i].how : i \in 1..Len(interp.blocks)}
           = {"none", "return", "continue", "break", "runtime"}
    /\ \E i \in 1..Len(interp.blocks) : interp.blocks[i].before # interp.Globals
    /\ interp.Environment = interp.Globals

C24_AtExactDistance ==
    (pc = "done" /\ lastOp.e - lastOp.distance >= 1) =>
        LET target == lastOp.e - lastOp.distance
            before == lastOp.before
        IN  /\ lastOp.err = NoErr
            /\ lastOp.op = "assignAt" =>
                   /\ chain[target].Values[lastOp.name] = lastOp.v
                   /\ \A i \in 1..Len(before), n \in Names :
                          (i # target \/ n # lastOp.name) =>
                              /\ (n \in DOMAIN chain[i].Values) = (n \in DOMAIN before[i].Values)
                              /\ n \in DOMAIN before[i].Values =>
                                     chain[i].Values[n] = before[i].Values[n]
                   /\ Len(chain) = Len(before)
                   /\ \A i \in 1..Len(before) : chain[i].Enclosing = before[i].Enclosing
            /\ lastOp.op = "getAt" =>
                   /\ chain = before
                   /\ lastOp.v = IF lastOp.name \in DOMAIN before[target].Values
                                 THEN before[target].Values[lastOp.name]
                                 ELSE NoValue

\* AssignAt from the innermost of three environments at distance 1, where all
\* three bound the name to 1 and the other name to 2: only the middle one
\* now holds 2 for the name
C24_Witness ==
    /\ pc = "done" /\ lastOp.op = "assignAt"
    /\ lastOp.e = 3 /\ lastOp.distance = 1 /\ lastOp.name = "a"
    /\ \A i \in 1..3 : lastOp.before[i].Values = [n \in Names |-> NewNumberValue(IF n = "a" THEN 1 ELSE 2)]
    /\ chain[1].Values["a"] = NewNumberValue(1)
    /\ chain[2].Values["a"] = NewNumberValue(2)
    /\ chain[3].Values["a"] = NewNumberValue(1)

\* GetAt from the innermost of three environments at distance 2 returns the
\* outermost binding although the two nearer environments bind the name too
GetAtSkipsNearer ==
    /\ pc = "done" /\ lastOp.op = "getAt"
    /\ lastOp.e = 3 /\ lastOp.distance = 2 /\ lastOp.name = "b"
    /\ lastOp.v = NewNumberValue(1)
    /\ chain[2].Values = [n \in Names |-> NewNumberValue(2)]
    /\ chain[3].Values = [n \in Names |-> NewNumberValue(2)]

\* C25: the callable check and the arity check of a call are made after every
\* argument expression has been evaluated: when either fails, all arguments
\* of the call have been evaluated.
C25_ChecksAfterArguments ==
    \A i \in 1..Len(interp.checks) : interp.checks[i].evaluated = interp.checks[i].args

\* the arity check alone comes after the arguments
ArityCheckedAfterArguments ==
    \A i \in 1..Len(interp.checks) :
        interp.checks[i].check = "arity" => interp.checks[i].evaluated = interp.checks[i].args

\* g(f(), f()) with g of one parameter: both arguments print before the error
ArityErrorAfterOutput ==
    /\ Sources[program] = SrcArityOrder /\ pc = "ran" /\ hadRuntimeError
    /\ interp.out = <<"arg", "arg">>
    /\ diag[Len(diag)].message = "Expected 1 arguments but got 2."

\* "s"(f()): the error is raised and the argument never ran
StringCalledBeforeArguments ==
    /\ Sources[program] = SrcCallString /\ pc = "ran" /\ hadRuntimeError
    /\ interp.out = <<>>
    /\ diag[Len(diag)].message = "Can only call functions and classes."

\* the values that are not truthy: nil and false
Falsy == {NewNilValue, NewBoolValue(FALSE)}

\* C26: for `a or b` and `a and b` the left operand is evaluated once; when
\* it is truthy for `or`, or falsy for `and`, the right operand is not
\* evaluated and the result is the left operand's value itself; otherwise
\* the right operand is evaluated once and its value is the result.  (The
\* operands of the programs are calls, so the calls completed during the
\* expression count the operand evaluations.)
C26_ShortCircuit ==
    \A i \in 1..Len(interp.logicals) :
        LET l == interp.logicals[i]
            settled == IF l.op = "or" THEN l.left \notin Falsy ELSE l.left \in Falsy
        IN  /\ l.right = ~settled
            /\ settled => l.v = l.left /\ l.calls = 1
            /\ ~settled /\ l.err = "none" => l.calls = 2

\* the six cases have run: each operand printed its letter once when
\* evaluated, and the printed results are operand values, never true
C26_Witness ==
    /\ Sources[program] = SrcShortCircuit /\ pc = "ran" /\ ~hadRuntimeError
    /\ interp.out = <<"t", "0", "n", "t", "0", "b", "n", "nil",
                     "n", "nil", "b", "false", "t", "b", "false">>
    /\ Len(interp.logicals) = 6
    /\ \E i \in 1..6 : interp.logicals[i].op = "or" /\ ~interp.logicals[i].right
                       /\ interp.logicals[i].v = NewNumberValue(0)
    /\ \E i \in 1..6 : interp.logicals[i].op = "and" /\ ~interp.logicals[i].right
                       /\ interp.logicals[i].v = NewNilValue

\* the token stream of the run
Source(tokens) == scanner.Tokens = Append(tokens, EOFToken)

\* C28: when the body of a for loop with an increment clause executes
\* continue, the increment is still evaluated before the condition is
\* tested again: for (var i = 0; i < 3; i = i + 1) { if (i == 1) continue;
\* print i; } ends, having printed 0 and 2.
C28_ContinueRunsIncrement ==
    Source(TokensForContinue) =>
        /\ pc # "looping"
        /\ pc \in {"ran", "exit"} => interp.out = <<"0", "2">>

\* the loop of C28 is still at i = 1 after MaxIterations rounds: each round
\* after the first two ended in a continue and printed nothing
ForContinueLoops ==
    /\ Source(TokensForContinue) /\ pc = "looping"
    /\ interp.out = <<"0">>
    /\ interp.iterations = MaxIterations
    /\ Len(interp.loops) = MaxIterations - 1
    /\ \A i \in 1..Len(interp.loops) : interp.loops[i].k = "continue"
    /\ \E e \in 1..Len(interp.envs) :
           /\ "i" \in DOMAIN interp.envs[e].Values
           /\ interp.envs[e].Values["i"] = NewNumberValue(1)

\* without continue the for loop runs its increment: 0 1 2 and it ends
ForLoopEnds ==
    /\ Source(TokensFor) /\ pc = "exit" /\ exitCode = 0
    /\ interp.out = <<"0", "1", "2">>

\* a while loop whose body increments before continue ends
WhileContinueEnds ==
    /\ Source(TokensWhileContinue) /\ pc = "exit" /\ exitCode = 0
    /\ interp.out = <<"1", "3">>

\* the types of the tokens at offsets from..to of the parser's stream
TypesBetween(from, to) == {parser.Tokens[j + 1].Type : j \in from..to}

\* C27: Parse ends on every token stream that ends with EOF (each
\* declaration consumes a token), and the tokens a parse error makes the
\* parser skip end just after the next `;` or just before the next
\* statement keyword: apart from the first token of the malformed
\* declaration no statement keyword is skipped, no `;` is skipped except as
\* the last token, so the statement that follows is still parsed.
C27_RecoveryKeepsNextStatement ==
    /\ Len(statements) <= parser.Current
    /\ \A i \in 1..Len(parser.syncs) :
           LET s == parser.syncs[i]
               first == IF s.at > s.start THEN s.at ELSE s.start + 1
           IN  /\ TypesBetween(first, s.to - 1) \cap StatementKeywords = {}
               /\ "Semicolon" \notin TypesBetween(s.at, s.to - 2)

\* Parse makes progress: every round of its loop consumes at least one token
ParseProgress == Len(statements) <= parser.Current

\* what synchronize does: it always skips the token the parser stood at and
\* stops at the first later offset that is the end, follows a `;` or
\* precedes a statement keyword
RecoveryAsCoded ==
    \A i \in 1..Len(parser.syncs) :
        LET s == parser.syncs[i]
        IN  /\ s.to > s.at \/ parser.Tokens[s.at + 1].Type = "EOF"
            /\ \/ parser.Tokens[s.to + 1].Type \in StatementKeywords \cup {"EOF"}
               \/ s.to > 0 /\ parser.Tokens[s.to].Type = "Semicolon"
            /\ TypesBetween(s.at + 1, s.to - 1) \cap StatementKeywords = {}
            /\ "Semicolon" \notin TypesBetween(s.at, s.to - 2)

\* print 1 print 2; : the error is reported at the second print, recovery
\* skips that token and everything up to the `;`, and print 2; is lost
\* without a message
MissingSemicolonSwallows ==
    /\ Source(TokensMissingSemicolon) /\ pc = "ran"
    /\ statements = <<NoStmt>>
    /\ Len(diag) = 1 /\ diag[1].message = "Expect ';' after value."
    /\ parser.syncs = <<[start |-> 0, at |-> 2, to |-> 5]>>

\* print + 1; print 2; : the statement after the malformed one is parsed
BadThenGoodParsed ==
    /\ Source(TokensBadThenGood) /\ pc = "ran"
    /\ statements = <<NoStmt, PrintS(Literal(NewNumberLiteral("2")))>>
    /\ Len(diag) = 1 /\ diag[1].message = "Expect expression."

\* the environments from e outwards
ChainOf(envs, e) == {Enclosers(envs, e)[i] : i \in 1..Len(Enclosers(envs, e))}

\* the local environments current in the caller when the call was made
CallerLocals(frame) == ChainOf(frame.before, frame.caller) \ {interp.Globals}

\* the call has returned and left the bindings of environment e as they were
Kept(frame, e) == frame.after # <<>> => frame.after[e].Values = frame.before[e].Values

\* some function was declared or bound inside environment e
Captured(e) ==
    \E fn \in 1..Len(interp.fns) : e \in ChainOf(interp.envs, interp.fns[fn].Closure)

\* C29 as stated: every call of a user function runs its body in a fresh
\* environment whose enclosing environment is the closure and never the
\* caller's current environment, and the call leaves the locals of its
\* caller as they were.
C29_CalleeApartFromCaller ==
    \A i \in 1..Len(interp.frames) :
        LET frame == interp.frames[i]
        IN  /\ frame.env > Len(frame.before)
            /\ frame.enclosing = frame.closure
            /\ frame.enclosing # frame.caller
            /\ \A e \in CallerLocals(frame) : Kept(frame, e)

\* C29, amended: every call of a user function runs its body in a fresh
\* environment whose enclosing environment is the function's closure,
\* whether or not that is the caller's current environment; the call
\* leaves the locals of its caller as they were unless a function was
\* declared inside them, which then reaches them through its closure.
C29_FreshFrameOnClosure ==
    \A i \in 1..Len(interp.frames) :
        LET frame == interp.frames[i]
        IN  /\ frame.env > Len(frame.before)
            /\ frame.enclosing = frame.closure
            /\ \A e \in CallerLocals(frame) : Kept(frame, e) \/ Captured(e)

\* g's local a left f's parameter a alone, inner changed the x of outer
\* that it closes over, and h, called from k, found no y
C29_Witness ==
    /\ Sources[program] = SrcFrames /\ pc = "ran" /\ hadRuntimeError
    /\ interp.out = <<"f", "2">>
    /\ diag[Len(diag)].message = "Undefined variable 'y'."
    /\ \E i \in 1..Len(interp.frames) :
           /\ interp.frames[i].closure # interp.frames[i].caller
           /\ interp.frames[i].caller # interp.Globals
    /\ \E i \in 1..Len(interp.frames) :
           \E e \in CallerLocals(interp.frames[i]) : ~Kept(interp.frames[i], e)

RECURSIVE HasNil(_)
RECURSIVE HasNilInside(_)

\* a nil entry in the statement list, or in the list of a block inside it
HasNil(stmts) ==
    \E i \in 1..Len(stmts) : stmts[i] = NoStmt \/ HasNilInside(stmts[i])

HasNilInside(s) ==
    CASE s.k = "block" -> HasNil(s.body)
      [] s.k = "if" -> HasNilInside(s.then) \/ (s.else # NoStmt /\ HasNilInside(s.else))
      [] s.k = "while" -> HasNilInside(s.body)
      [] OTHER -> FALSE

\* C30: whenever the statement list built by Parse, or the list of a block
\* inside it, holds a nil entry, the had-error flag is set; the resolver and
\* the interpreter are never started on a list that holds one.
C30_NilOnlyWithError ==
    /\ HasNil(statements) => hadError
    /\ pc \in {"resolve", "interpret", "looping"} => ~HasNil(statements)

\* { print ; print 1; } if (1) print 2; else print 3; : the block keeps a
\* nil for print ; the flag is set and run has returned after Parse
C30_Witness ==
    /\ Source(TokensBadInBlock) /\ pc = "ran" /\ hadError
    /\ Len(statements) = 2
    /\ statements[1] = Block(<<NoStmt, PrintS(Literal(NewNumberLiteral("1")))>>)
    /\ statements[2].k = "if"
    /\ interp.out = <<>>
    /\ interp.Locals = EmptyMap

=============================================================================
